---- MODULE Spec2Model ----
(***************************************************************************)
(* Bidirectional selection/filter synchronisation of the APS viewer visual *)
(* (visual.ts with the helpers of viewer.utils).                           *)
(*                                                                         *)
(* The program runs on one JavaScript event loop.  Every action below is   *)
(* one run-to-completion segment of the code: from the start of a task (a  *)
(* host update, a timer, a viewer event, a promise settlement) or from the *)
(* resumption of an await up to the next await or return.  A segment that  *)
(* resumes from an already settled promise is a microtask: while one is    *)
(* runnable no new task starts.                                            *)
(***************************************************************************)
EXTENDS Integers, Sequences, FiniteSets, TLC

\* ---------------------------------------------------------------- bounds
MaxUpdates == 2       \* update cycles in flight at the same time
MaxInits == 3         \* initializeViewer calls in one behaviour
SerialInits == 1      \* initializeViewer calls in one behaviour of Spec
HostInits == 2        \* initializeViewer calls in one behaviour of SpecHost
MaxLoads == 1         \* scenes loaded (IdMapping objects built) in one behaviour
MaxResetTimers == 1   \* deferred guard resets pending at the same time
MaxBurst == 5         \* notifications counted in one debounce burst
MaxTimers == 2        \* live debounce timers (more than one only if clearTimeout is lost)
MaxAllRows == 1       \* rows of allRows that are counted
MaxPasses == 2        \* reconciliation passes alive (more than one only if the lock is lost)

\* null for the fields that hold an id array; no request made yet.
Null == <<"null">>
Unset == {"unset"}
\* null where an ExternalId is expected; no URN in the rows (null, falsy like '').
NoId == "null"
NoUrn == ""

\* ------------------------------------------------------ scene and data universe
\* External identifiers the data source can send.  "X" is not in the scene.
EIDs == {"A", "X"}
\* Internal node identifiers (dbIds) of the loaded scene.
Nodes == {1, 2, 3, 4, 5}
\* What model.getExternalIdMapping() resolves to for the loaded scene; the data
\* source has no row for "B".  "S" is a stale entry: the scene has no node 9.
SceneMapping == [e \in {"A", "B", "S"} |-> CASE e = "A" -> 1 [] e = "B" -> 4 [] OTHER -> 9]
\* Instance tree: node 1 is a container with two leaf children, nodes 2 and 5,
\* which have no ExternalId of their own; nodes 3 and 4 hang off the root (0),
\* node 3 has no ExternalId either.
NodeParent == [n \in Nodes |-> IF n \in {2, 5} THEN 1 ELSE 0]
Urns == {"u1"}
\* Selections the user makes in the viewer: nothing, a mapped element, an element
\* without any ExternalId on its path.
Selections == {{}, {1}, {3}}

\* --------------------------------------------------------------- sequences
Range(s) == {s[i] : i \in 1..Len(s)}

Rank(e) == IF e = "A" THEN 1 ELSE 2

RECURSIVE SeqOfSet(_)
\* A set of EIDs as the array a batch carries them in (rows in alphabetical order).
SeqOfSet(S) ==
  IF S = {} THEN <<>>
  ELSE LET m == CHOOSE x \in S : \A y \in S : Rank(x) <= Rank(y)
       IN <<m>> \o SeqOfSet(S \ {m})

\* The ExternalIds column of the batches the host sends.
Batches == {SeqOfSet(S) : S \in SUBSET EIDs}

\* Cells of the externalIds column as the host sends them: an id, an id with blanks
\* around it, a blank cell, and NoId for a cell without a value (null).
Cells == {"A", " A ", "X", " ", NoId}

\* String.prototype.trim on the texts above; without it a text stays as it is.
Trim(c) == CASE c = " A " -> "A" [] c = " " -> "" [] OTHER -> c

RECURSIVE BatchIds(_, _)
\* The forEach over dataView.table.rows: a cell without a value is skipped, the
\* text is trimmed, a blank one is skipped, one already in the batch is skipped.
BatchIds(rows, acc) ==
  IF rows = <<>> THEN acc
  ELSE LET c == Head(rows)
           externalId == Trim(c)
       IN BatchIds(Tail(rows),
                   IF c = NoId \/ externalId = "" \/ externalId \in Range(acc)
                   THEN acc ELSE Append(acc, externalId))

\* currentBatchIds of an update whose table has these cells in its externalIds column.
currentBatchIds(rows) == BatchIds(rows, <<>>)

AppendNew_concat(ext, batch) == ext \o batch
RECURSIVE AppendNew(_, _)
\* externalIds after pushing every id of batch that it does not hold yet.
AppendNew(ext, batch) ==
  IF batch = <<>> THEN ext
  ELSE AppendNew(IF Head(batch) \in Range(ext) THEN ext ELSE Append(ext, Head(batch)), Tail(batch))

\* ------------------------------------------------------------- IdMapping
\* IdMapping.getDbids: the dbIds of the ExternalIds the scene knows, input order.
getDbids_padded(ids) == [i \in 1..Len(ids) |-> IF ids[i] = "A" THEN 1 ELSE 0]
RECURSIVE getDbids(_)
getDbids(ids) ==
  IF ids = <<>> THEN <<>>
  ELSE LET rawId == Head(ids)
           externalId == IF rawId = NoId THEN "" ELSE Trim(rawId)
       IN IF externalId # "" /\ externalId \in DOMAIN SceneMapping
          THEN <<SceneMapping[externalId]>> \o getDbids(Tail(ids))
          ELSE getDbids(Tail(ids))

\* The reverse index built in the IdMapping constructor.
HasReverse(d) == \E e \in DOMAIN SceneMapping : SceneMapping[e] = d
Reverse(d) == CHOOSE e \in DOMAIN SceneMapping : SceneMapping[e] = d

\* "depth < 100": the safety bound of the ancestor walk.
MaxDepth == 100

RECURSIVE WalkUp(_, _)
\* resolveSingle's ancestor walk: nearest ancestor with an ExternalId, at most 100 hops.
WalkUp(current, depth) ==
  IF depth >= MaxDepth \/ current \notin Nodes THEN NoId
  ELSE LET parent == NodeParent[current]
       IN IF parent \notin Nodes \/ parent = current THEN NoId
          ELSE IF HasReverse(parent) THEN Reverse(parent)
          ELSE WalkUp(parent, depth + 1)

resolveSingle(d) == IF HasReverse(d) THEN Reverse(d) ELSE WalkUp(d, 0)

\* IdMapping.getExternalIds on a selection, as the set of values of the result.
getExternalIds(dbids) == {resolveSingle(d) : d \in dbids} \ {NoId}

\* Descendants of a node (tree.enumNodeChildren(dbid, cb, true)).
RECURSIVE Descendants(_, _)
Descendants(n, fuel) ==
  IF fuel = 0 THEN {}
  ELSE LET kids == {c \in Nodes : NodeParent[c] = n}
       IN kids \cup UNION {Descendants(c, fuel - 1) : c \in kids}

\* "tree.getNodeType(dbid) != null": the dbId is a node of the loaded scene.
NodeExists_always(dbid) == TRUE
NodeExists(dbid) == dbid \in Nodes

\* syncSelectionState: the dbIds of validDbIds that pass the node check.
verifiedDbIds(valid) == {dbid \in Range(valid) : NodeExists(dbid)}

RECURSIVE validateDbIds(_)
\* IdMapping.validateDbIds: the dbIds of the input that pass the node check.
validateDbIds(dbids) ==
  IF dbids = <<>> THEN <<>>
  ELSE (IF NodeExists(Head(dbids)) THEN <<Head(dbids)>> ELSE <<>>) \o validateDbIds(Tail(dbids))

\* The verified dbIds alone, as if the containers were not expanded.
ExpandedDbIds_verifiedOnly(valid) == verifiedDbIds(valid)
\* syncSelectionState: verified dbIds plus all descendants of the containers.
ExpandedDbIds(valid) ==
  LET verified == verifiedDbIds(valid)
  IN verified \cup UNION {Descendants(d, Cardinality(Nodes)) : d \in verified}
Min(a, b) == IF a < b THEN a ELSE b

\* ------------------------------------------------------------------ state
VARIABLES
  \* fields of Visual
  currentDataView,          \* "none" (no table), "noext" (table without an externalIds column), "full"
  currentUrn,               \* "" or the URN of the scene being shown
  externalIds,              \* accumulated ExternalIds, insertion order, no duplicates
  allDbIds,                 \* Null or a copy of externalIds
  allRows,                  \* number of accumulated table rows, counted up to MaxAllRows
  elementDataMap,           \* the ExternalIds whose entry carries a colour category
  categoryColorMap,         \* TRUE iff the map holds a colour for the category of the rows
  dbIdToColumnValueMap,     \* reverse cache, a set of <<dbId, ExternalId>> pairs
  lastFilteredIds,          \* Null or the ids of the last external filter
  pendingSelection,         \* Null or ids waiting for the viewer
  isDbIdSelectionActive,    \* own filter in flight
  isProgrammaticSelection,  \* re-entrancy guard
  isProcessingSelection,    \* lock of the reconciliation pass
  isUpdatePending,          \* a pass was requested while one was running
  selectionDebounceTimer,   \* number of live debounce timers
  isGlobalColoringEnabled,  \* paint-bucket toggle
  viewer,                   \* TRUE iff viewer and model are set
  idMapping,                \* 0 (null) or the index of the scene load whose IdMapping is held
  isViewerReady,
  \* the scene
  mapState,                 \* per scene load: "unborn", "pending", "resolved", "rejected"
  inits,                    \* initializeViewer calls made so far
  loads,                    \* scenes loaded so far
  sel,                      \* the viewer's selection (dbIds)
  selProg,                  \* TRUE iff the selection was made by viewer.select from the code
  visible,                  \* the dbIds the scene shows: Nodes, or the isolated ones
  themed,                   \* dbIds carrying a theming colour
  \* tasks in flight
  upd,                      \* update cycles suspended at an await, by slot
  passes,                   \* handleSelectionChange invocations suspended at their await
  guardResetTimers,         \* pending setTimeout(..., 100) resets of the guard
  colorJobs,                \* syncColors calls nobody awaits, suspended at their getDbids
  \* history
  timerGuarded,             \* guard value when the last notification was raised
  burst,                    \* notifications absorbed by the live debounce timer
  dropped,                  \* the last notification's invocation ended without a request
  \* the host
  hostFilter,               \* Unset, or the ids last handed to host.applyJsonFilter ({} for null)
  \* a helper called on its own
  call                      \* NoCall, or the helper, its argument and its result

dataVars == <<currentDataView, currentUrn, externalIds, allDbIds, allRows, elementDataMap,
              categoryColorMap>>
viewerVars == <<viewer, idMapping, isViewerReady, mapState, inits, loads>>
sceneVars == <<sel, selProg, visible, themed>>
timerVars == <<selectionDebounceTimer, timerGuarded, burst, dropped>>
flagVars == <<lastFilteredIds, pendingSelection, isDbIdSelectionActive, isProgrammaticSelection>>
passVars == <<isProcessingSelection, isUpdatePending, passes>>

vars == <<dataVars, dbIdToColumnValueMap, viewerVars, sceneVars, timerVars, flagVars,
          passVars, isGlobalColoringEnabled, colorJobs, upd, guardResetTimers, hostFilter, call>>

Slots == 1..MaxUpdates
Gens == 1..MaxLoads

IdleUpd == [pc |-> "idle", pag |-> FALSE, flt |-> FALSE, batch |-> <<>>, ids |-> <<>>,
            sids |-> <<>>, gen |-> 0, ctx |-> "none"]

\* No helper is being examined on its own.
NoCall == [fn |-> "none", arg |-> <<>>, done |-> TRUE, res |-> <<>>]

\* The fields of Visual after construction, no viewer yet.
InitFields ==
  /\ currentDataView = "none"
  /\ currentUrn = ""
  /\ externalIds = <<>>
  /\ allDbIds = Null
  /\ allRows = 0
  /\ elementDataMap = {}
  /\ categoryColorMap = FALSE
  /\ colorJobs = {}
  /\ dbIdToColumnValueMap = {}
  /\ lastFilteredIds = Null
  /\ pendingSelection = Null
  /\ isDbIdSelectionActive = FALSE
  /\ isProgrammaticSelection = FALSE
  /\ isProcessingSelection = FALSE
  /\ isUpdatePending = FALSE
  /\ selectionDebounceTimer = 0
  /\ isGlobalColoringEnabled = FALSE
  /\ viewer = FALSE
  /\ idMapping = 0
  /\ isViewerReady = FALSE
  /\ mapState = [g \in Gens |-> "unborn"]
  /\ inits = 0
  /\ loads = 0
  /\ sel = {}
  /\ selProg = FALSE
  /\ visible = Nodes
  /\ themed = {}
  /\ upd = [s \in Slots |-> IdleUpd]
  /\ passes = <<>>
  /\ guardResetTimers = 0
  /\ timerGuarded = FALSE
  /\ burst = 0
  /\ dropped = FALSE
  /\ hostFilter = Unset

Init == InitFields /\ call = NoCall

\* ------------------------------------------------------------ event loop
\* The state of the mapping promise of scene load g; "none" when nothing is awaited.
MapStateOf(g) == IF g \in Gens THEN mapState[g] ELSE "none"

\* "const mapping = await this.externalIdMappingPromise": the call goes on once the
\* query of its IdMapping has settled.
MappingAwaited_skipped(g) == TRUE
MappingAwaited(g) == MapStateOf(g) # "pending"

\* An await on a promise that is already settled resumes as a microtask.
UpdMicro(u) ==
  \/ u.pc \in {"cls", "sync_ret"}
  \/ u.pc \in {"sync_map", "s3_rev", "s2_col", "s3_col"} /\ MapStateOf(u.gen) # "pending"
PassMicro(p) == ~p.mapped \/ MapStateOf(p.gen) # "pending"
JobMicro(j) == MapStateOf(j.gen) # "pending"
MicroPending ==
  \/ \E s \in Slots : UpdMicro(upd[s])
  \/ \E i \in 1..Len(passes) : PassMicro(passes[i])
  \/ \E j \in colorJobs : JobMicro(j)
\* A new task (timer, event, host call, settlement) starts only on an empty microtask queue.
TaskMayStart == ~MicroPending

\* ----------------------------------------------- selection notifications
\* Live debounce timers after the SELECTION_CHANGED callback ran with t live ones:
\* it clears the running timer and starts a new one, without the clearTimeout the
\* earlier timer would stay alive.
OnSelectionChanged_noClear(t) == t + 1
OnSelectionChanged(t) == 1

\* The callback given to launchViewer, run synchronously by the event raised at a
\* selection change; guardNow is the guard's value at that moment.
Notified(guardNow) ==
  /\ OnSelectionChanged(selectionDebounceTimer) <= MaxTimers
  /\ selectionDebounceTimer' = OnSelectionChanged(selectionDebounceTimer)
  /\ timerGuarded' = guardNow
  /\ burst' = Min(burst + 1, MaxBurst)
  /\ dropped' = FALSE

\* The user changes the selection in the viewer (click, Ctrl+click, model browser).
UserSelect(S) ==
  /\ TaskMayStart
  /\ viewer
  /\ S # sel
  /\ sel' = S
  /\ selProg' = FALSE
  /\ Notified(isProgrammaticSelection)
  /\ UNCHANGED <<dataVars, dbIdToColumnValueMap, viewerVars, visible, themed, flagVars,
                 passVars, isGlobalColoringEnabled, colorJobs, upd, guardResetTimers, hostFilter, call>>

\* ------------------------------------------------ handleSelectionChange
\* getSelectionAsExternalIds asks the mapping only for a non-empty selection.
SelectionNeedsMapping_always(s) == TRUE
SelectionNeedsMapping(s) == s # {}

\* "if (this.isProcessingSelection) { this.isUpdatePending = true; return; }"
HscBusy_never == FALSE
HscBusy == isProcessingSelection

\* One iteration of the do-while up to its await: the selection is read from the
\* viewer and handed to the mapping.
NewIteration(g, b) ==
  [snap |-> sel, gen |-> idMapping, mapped |-> SelectionNeedsMapping(sel),
   prog |-> selProg /\ sel # {}, guarded |-> g, full |-> (b = MaxBurst)]

\* A debounce timer elapses: handleSelectionChange() runs up to its first await.
DebounceFire ==
  /\ TaskMayStart
  /\ selectionDebounceTimer >= 1
  /\ selectionDebounceTimer' = selectionDebounceTimer - 1
  /\ timerGuarded' = FALSE
  /\ burst' = 0
  /\ IF ~viewer \/ idMapping = 0 \/ isProgrammaticSelection
     THEN /\ dropped' = TRUE
          /\ UNCHANGED passVars
     ELSE IF HscBusy
     THEN /\ isUpdatePending' = TRUE
          /\ UNCHANGED <<isProcessingSelection, passes, dropped>>
     ELSE /\ Len(passes) < MaxPasses
          /\ isProcessingSelection' = TRUE
          /\ isUpdatePending' = FALSE
          /\ passes' = Append(passes, NewIteration(timerGuarded, burst))
          /\ UNCHANGED dropped
  /\ UNCHANGED <<dataVars, dbIdToColumnValueMap, viewerVars, sceneVars, flagVars,
                 isGlobalColoringEnabled, colorJobs, upd, guardResetTimers, hostFilter, call>>

Rest(i) == SubSeq(passes, 1, i - 1) \o SubSeq(passes, i + 1, Len(passes))

\* The selection of pass i handed on as it is, each dbId as a text.
Selected_dbIds(i) ==
  {CASE d = 1 -> "1" [] d = 2 -> "2" [] d = 3 -> "3" [] d = 4 -> "4" [] OTHER -> "5" :
     d \in passes[i].snap}
\* What the awaited getSelectionAsExternalIds yields for pass i.
Selected(i) == IF passes[i].mapped THEN getExternalIds(passes[i].snap) ELSE {}

\* "finally { this.isProcessingSelection = false; }"
Release(i) ==
  /\ isProcessingSelection' = FALSE
  /\ passes' = Rest(i)

\* A pass that cleared the theming on its way.
PassUnchanged_themingCleared ==
  /\ themed' = {}
  /\ UNCHANGED <<dataVars, dbIdToColumnValueMap, viewerVars, sel, selProg, visible,
                 lastFilteredIds, pendingSelection, isProgrammaticSelection,
                 isGlobalColoringEnabled, colorJobs, upd, guardResetTimers,
                 selectionDebounceTimer, timerGuarded, burst, call>>
\* What no step of a pass after its await touches: data, viewer, scene, guard.
PassUnchanged ==
  UNCHANGED <<dataVars, dbIdToColumnValueMap, viewerVars, sceneVars, lastFilteredIds,
              pendingSelection, isProgrammaticSelection, isGlobalColoringEnabled, colorJobs, upd,
              guardResetTimers, selectionDebounceTimer, timerGuarded, burst, call>>

\* The mapping promise rejected: the await throws into the catch of the pass.
PassThrow(i) ==
  /\ passes[i].mapped /\ MapStateOf(passes[i].gen) = "rejected"
  /\ Release(i)
  /\ dropped' = TRUE
  /\ UNCHANGED <<isUpdatePending, isDbIdSelectionActive, hostFilter>>
  /\ PassUnchanged

PassSettled(i) == ~passes[i].mapped \/ MapStateOf(passes[i].gen) = "resolved"

\* No ExternalId selected: host.applyJsonFilter(null), then "return".
PassEmitClear(i) ==
  /\ PassSettled(i)
  /\ Selected(i) = {}
  /\ isDbIdSelectionActive' = FALSE
  /\ hostFilter' = {}
  /\ Release(i)
  /\ UNCHANGED <<isUpdatePending, dropped>>
  /\ PassUnchanged

\* No data view, or no externalIds column: "return" without a request.
PassNoData(i) ==
  /\ PassSettled(i)
  /\ Selected(i) # {}
  /\ currentDataView # "full"
  /\ Release(i)
  /\ dropped' = TRUE
  /\ UNCHANGED <<isUpdatePending, isDbIdSelectionActive, hostFilter>>
  /\ PassUnchanged

\* host.applyJsonFilter(BasicFilter In Selected), then the loop condition.
PassEmitFilter(i) ==
  /\ PassSettled(i)
  /\ Selected(i) # {}
  /\ currentDataView = "full"
  /\ isDbIdSelectionActive' = TRUE
  /\ hostFilter' = Selected(i)
  /\ IF isUpdatePending
     THEN /\ isUpdatePending' = FALSE
          /\ IF viewer
             THEN /\ passes' = [passes EXCEPT ![i] = NewIteration(FALSE, 0)]
                  /\ UNCHANGED isProcessingSelection
             ELSE Release(i)   \* this.viewer.getSelection() throws on null
     ELSE /\ Release(i)
          /\ UNCHANGED isUpdatePending
  /\ UNCHANGED dropped
  /\ PassUnchanged

\* ------------------------------------------------------- timers, promises
\* "setTimeout(() => { this.isProgrammaticSelection = false; }, 100)" elapses.
GuardResetFire ==
  /\ TaskMayStart
  /\ guardResetTimers >= 1
  /\ guardResetTimers' = guardResetTimers - 1
  /\ isProgrammaticSelection' = FALSE
  /\ UNCHANGED <<dataVars, dbIdToColumnValueMap, viewerVars, sceneVars, timerVars,
                 lastFilteredIds, pendingSelection, isDbIdSelectionActive, passVars,
                 isGlobalColoringEnabled, colorJobs, upd, hostFilter, call>>

\* model.getExternalIdMapping calls back: the mapping promise settles.
MappingSettle(g, outcome) ==
  /\ TaskMayStart
  /\ mapState[g] = "pending"
  /\ mapState' = [mapState EXCEPT ![g] = outcome]
  /\ UNCHANGED <<dataVars, dbIdToColumnValueMap, viewer, idMapping, isViewerReady, inits,
                 loads,
                 sceneVars, timerVars, flagVars, passVars, isGlobalColoringEnabled, colorJobs, upd,
                 guardResetTimers, hostFilter, call>>

\* syncColors up to its first await: the theming is cleared (with or without the
\* global colouring), nothing is coloured yet.
ThemedAfterSyncColors(t) == IF viewer /\ idMapping # 0 THEN {} ELSE t

\* The ExternalIds syncColors groups by colour: the entries of elementDataMap
\* whose category has a colour in categoryColorMap.
GroupsOf(entries, colors) == IF colors THEN entries ELSE {}
ColorGroups == GroupsOf(elementDataMap, categoryColorMap)

\* syncColors, the global colouring being on, goes on to applyColorToExternalIds
\* and awaits getDbids there.
AwaitsColors(groups) == viewer /\ idMapping # 0 /\ groups # {}

\* A syncColors() call that nobody awaits, the global colouring being on.
ColorJob(jobs, groups) ==
  IF AwaitsColors(groups) THEN jobs \cup {[gen |-> idMapping, ids |-> groups]} ELSE jobs

\* The nodes applyColorToExternalIds colours for the ExternalIds ids.
ColoredDbIds(ids) == Range(getDbids(SeqOfSet(ids)))

\* applyColorToExternalIds resumes from getDbids without an exception: the query
\* was answered, and there is a viewer to colour the nodes of.
ColorsApplied(g, ids) ==
  MapStateOf(g) = "resolved" /\ (viewer \/ ColoredDbIds(ids) = {})

\* A syncColors() call that nobody awaits resumes from getDbids: it colours the
\* nodes, or ends with a rejection that nobody handles.
ColorJobRuns(j) ==
  /\ j \in colorJobs
  /\ JobMicro(j)
  /\ colorJobs' = colorJobs \ {j}
  /\ themed' = IF ColorsApplied(j.gen, j.ids) /\ viewer
               THEN themed \cup ColoredDbIds(j.ids) ELSE themed
  /\ UNCHANGED <<dataVars, dbIdToColumnValueMap, viewerVars, sel, selProg, visible,
                 timerVars, flagVars, passVars, isGlobalColoringEnabled, upd,
                 guardResetTimers, hostFilter, call>>

\* The paint-bucket button: toggles the flag, then syncColors() or clearThemingColors.
ToolbarToggle ==
  /\ TaskMayStart
  /\ viewer
  /\ isGlobalColoringEnabled' = ~isGlobalColoringEnabled
  /\ themed' = IF isGlobalColoringEnabled THEN {} ELSE ThemedAfterSyncColors(themed)
  /\ colorJobs' = IF isGlobalColoringEnabled THEN colorJobs
                  ELSE ColorJob(colorJobs, ColorGroups)
  /\ UNCHANGED <<dataVars, dbIdToColumnValueMap, viewerVars, sel, selProg, visible,
                 timerVars, flagVars, passVars, upd, guardResetTimers, hostFilter, call>>

\* ------------------------------------------------- update: classification
\* "currentBatchIds.length !== this.externalIds.length", both non-empty.
HasFilterByCount_nonEmpty(cb, ext) == Len(cb) > 0
HasFilterByCount(cb, ext) == Len(cb) > 0 /\ Len(ext) > 0 /\ Len(cb) # Len(ext)

\* The detection without its "!this.isDbIdSelectionActive" conjunct.
IsExternalFilter_ignoresOwn(pag, flt, cb, ext) ==
  ~pag /\ (flt \/ HasFilterByCount(cb, ext))
IsExternalFilter(pag, flt, cb, ext) ==
  ~isDbIdSelectionActive /\ ~pag /\ (flt \/ HasFilterByCount(cb, ext))

IdsToIsolate(pag, flt, cb, ext) == IF IsExternalFilter(pag, flt, cb, ext) THEN cb ELSE <<>>

IsFilterCleared(flt, cb, ext) ==
  lastFilteredIds # Null /\ ~isDbIdSelectionActive /\ ~flt /\ ~HasFilterByCount(cb, ext)

NotReady == ~viewer \/ ~isViewerReady \/ idMapping = 0

\* The branch of the dispatch at the end of update that a cycle takes.
ClassifyBranch(pag, flt, cb, ext) ==
  IF NotReady THEN "notready"
  ELSE IF IsExternalFilter(pag, flt, cb, ext) /\ IdsToIsolate(pag, flt, cb, ext) # <<>> /\ ~pag
       THEN "s1"
  ELSE IF IsFilterCleared(flt, cb, ext) THEN "s2"
  ELSE IF ~flt /\ ~isDbIdSelectionActive /\ ~pag /\ lastFilteredIds = Null THEN "s3"
  ELSE "none"

HasPending == pendingSelection # Null /\ pendingSelection # <<>>

\* "if (this.isGlobalColoringEnabled) { void this.syncColors(); }" at the end of update.
FinalStep(t) == IF isGlobalColoringEnabled THEN ThemedAfterSyncColors(t) ELSE t
FinalJobs(jobs, groups) == IF isGlobalColoringEnabled THEN ColorJob(jobs, groups) ELSE jobs

Done(s) == upd' = [upd EXCEPT ![s] = IdleUpd]

\* Nodes the isolation sequence selects with viewer.select: none ("NO selecting
\* elements"); the removed call selected every isolated node.
ProgrammaticSelect_all(fin) == fin
ProgrammaticSelect(fin) == {}

\* clearSelection(), clearThemingColors(), showAll(): the fail-safe view.
ShowAllFallback_noShowAll ==
  /\ sel' = {}
  /\ selProg' = FALSE
  /\ themed' = {}
  /\ UNCHANGED visible
  /\ IF sel # {} THEN Notified(isProgrammaticSelection) ELSE UNCHANGED timerVars
ShowAllFallback ==
  /\ sel' = {}
  /\ selProg' = FALSE
  /\ themed' = {}
  /\ visible' = Nodes
  /\ IF sel # {} THEN Notified(isProgrammaticSelection) ELSE UNCHANGED timerVars

\* Lines 474-603 of update, from the filter detection to the first await of the
\* branch taken (or to the end of the cycle); t is the theming and jobs are the
\* unawaited syncColors calls the lines before have left, groups the colour groups
\* of the data now held.
Classify(s, pag, flt, cb, ext, t, jobs, groups) ==
  LET br == ClassifyBranch(pag, flt, cb, ext)
      ids == IdsToIsolate(pag, flt, cb, ext)
      awaits == isGlobalColoringEnabled /\ AwaitsColors(groups)
  IN
  CASE br = "notready" ->
         /\ IF IsExternalFilter(pag, flt, cb, ext) /\ ids # <<>>
            THEN pendingSelection' = ids /\ lastFilteredIds' = ids
            ELSE UNCHANGED <<pendingSelection, lastFilteredIds>>
         /\ themed' = t
         /\ colorJobs' = jobs
         /\ UNCHANGED <<isDbIdSelectionActive, isProgrammaticSelection, sel, selProg,
                        visible, timerVars>>
         /\ Done(s)
    [] br = "s1" ->
         /\ isProgrammaticSelection' = TRUE
         /\ isDbIdSelectionActive' = FALSE
         /\ pendingSelection' = IF HasPending THEN Null ELSE pendingSelection
         /\ upd' = [upd EXCEPT ![s] =
               [IdleUpd EXCEPT !.pc = "sync_map", !.ctx = "s1", !.ids = ids,
                               !.sids = IF HasPending THEN pendingSelection ELSE ids,
                               !.gen = idMapping]]
         /\ themed' = t
         /\ colorJobs' = jobs
         /\ UNCHANGED <<lastFilteredIds, sel, selProg, visible, timerVars>>
    [] br = "s2" ->
         /\ isProgrammaticSelection' = TRUE
         /\ sel' = {}
         /\ selProg' = FALSE
         /\ themed' = {}
         /\ visible' = Nodes
         /\ IF sel # {} THEN Notified(TRUE) ELSE UNCHANGED timerVars
         /\ lastFilteredIds' = Null
         /\ isDbIdSelectionActive' = FALSE
         /\ upd' = [upd EXCEPT ![s] =
               [IdleUpd EXCEPT !.pc = "s2_col",
                               !.sids = IF awaits THEN SeqOfSet(groups) ELSE <<>>,
                               !.gen = IF awaits THEN idMapping ELSE 0]]
         /\ colorJobs' = jobs
         /\ UNCHANGED pendingSelection
    [] br = "s3" ->
         /\ upd' = [upd EXCEPT ![s] =
               [IdleUpd EXCEPT !.pc = "s3_rev", !.sids = ext,
                               !.gen = IF ext = <<>> THEN 0 ELSE idMapping]]
         /\ themed' = t
         /\ colorJobs' = jobs
         /\ UNCHANGED <<flagVars, sel, selProg, visible, timerVars>>
    [] OTHER ->
         /\ themed' = FinalStep(t)
         /\ colorJobs' = FinalJobs(jobs, groups)
         /\ Done(s)
         /\ UNCHANGED <<flagVars, sel, selProg, visible, timerVars>>

\* ------------------------------------------------------ update: the task
\* "if (isCreate && !isDataFilterApplied)": the accumulated dataset starts afresh.
ResetsDataset_anyCreate(op, flt) == op = "Create"
ResetsDataset(op, flt) == op = "Create" /\ ~flt

\* destroyViewer that resets the viewer's fields and leaves the filter state.
ResetState_keepsFilterState ==
  /\ viewer' = FALSE
  /\ idMapping' = 0
  /\ isViewerReady' = FALSE
  /\ UNCHANGED <<isDbIdSelectionActive, lastFilteredIds, pendingSelection>>
\* "// Resetear estado" of destroyViewer: viewer (with its model), idMapping,
\* isViewerReady, isDbIdSelectionActive, lastFilteredIds, pendingSelection.
ResetState ==
  /\ viewer' = FALSE
  /\ idMapping' = 0
  /\ isViewerReady' = FALSE
  /\ isDbIdSelectionActive' = FALSE
  /\ lastFilteredIds' = Null
  /\ pendingSelection' = Null

\* The host calls update(options): settings, data accumulation, pagination fetch,
\* viewer (re)initialisation or, with a viewer for this URN, the classification.
HostUpdate(s, dv, op, seg, flt, nrows, batch, urn) ==
  /\ TaskMayStart
  /\ upd[s].pc = "idle"
  /\ \A t \in Slots : t < s => upd[t].pc # "idle"
  /\ IF dv = "none"
     THEN /\ currentDataView' = "none"
          /\ currentUrn' = ""
          /\ UNCHANGED <<externalIds, allDbIds, allRows, elementDataMap, categoryColorMap,
                         dbIdToColumnValueMap, viewerVars, sceneVars,
                         timerVars, flagVars, upd, colorJobs>>
     ELSE IF dv = "nourn"
     THEN \* "if (urnIndex === -1) return"
          /\ currentDataView' = "full"
          /\ UNCHANGED <<currentUrn, externalIds, allDbIds, allRows, elementDataMap,
                         categoryColorMap, dbIdToColumnValueMap,
                         viewerVars, sceneVars, timerVars, flagVars, upd, colorJobs>>
     ELSE LET fresh == ResetsDataset(op, flt)
              \* the rows' entries of elementDataMap, the colours of their category
              entries0 == IF fresh THEN {} ELSE elementDataMap
              entries1 == IF dv = "colored" THEN entries0 \cup Range(batch)
                          ELSE entries0 \ Range(batch)
              colors1 == IF dv = "colored" THEN nrows > 0 ELSE categoryColorMap
              groups == GroupsOf(entries1, colors1)
              \* "if (colorsChanged && this.isGlobalColoringEnabled && ...) void this.syncColors()"
              recolor == /\ dv = "colored" /\ colors1 # categoryColorMap
                         /\ isGlobalColoringEnabled /\ viewer /\ idMapping # 0
              themed0 == IF recolor THEN {} ELSE themed
              jobs0 == IF recolor THEN ColorJob(colorJobs, groups) ELSE colorJobs
              ext0 == IF fresh THEN <<>> ELSE externalIds
              ext1 == IF flt THEN ext0 ELSE AppendNew(ext0, batch)
              rows0 == IF fresh THEN 0 ELSE allRows
              rows1 == IF flt THEN rows0 ELSE Min(rows0 + nrows, MaxAllRows)
              pag == op = "Append" \/ seg
              needsInit == urn # NoUrn /\ (~viewer \/ urn # currentUrn)
          IN /\ currentDataView' = "full"
             /\ elementDataMap' = entries1
             /\ categoryColorMap' = colors1
             /\ externalIds' = ext1
             /\ allDbIds' = IF flt THEN allDbIds ELSE ext1
             /\ allRows' = rows1
             /\ dbIdToColumnValueMap' = IF fresh THEN {} ELSE dbIdToColumnValueMap
             /\ IF needsInit
                THEN /\ inits < MaxInits
                     /\ inits' = inits + 1
                     /\ currentUrn' = urn
                     /\ upd' = [upd EXCEPT ![s] =
                           [IdleUpd EXCEPT !.pc = "tok", !.pag = pag, !.flt = flt,
                                           !.batch = batch]]
                     /\ UNCHANGED <<mapState, loads, isProgrammaticSelection>>
                     /\ colorJobs' = jobs0
                     /\ IF viewer
                        THEN \* destroyViewer()
                             /\ sel' = {}
                             /\ selProg' = FALSE
                             /\ themed' = {}
                             /\ visible' = Nodes
                             /\ IF sel # {} THEN Notified(isProgrammaticSelection)
                                ELSE UNCHANGED timerVars
                             /\ ResetState
                        ELSE UNCHANGED <<sceneVars, timerVars, viewer, idMapping,
                                         isViewerReady, isDbIdSelectionActive,
                                         lastFilteredIds, pendingSelection>>
                ELSE /\ Classify(s, pag, flt, batch, ext1, themed0, jobs0, groups)
                     /\ UNCHANGED <<currentUrn, viewer, idMapping, isViewerReady,
                                    mapState, inits, loads>>
  /\ UNCHANGED <<passVars, isGlobalColoringEnabled, guardResetTimers, hostFilter, call>>

\* -------------------------------------------------- update: initialisation
\* fetchToken settles: without a token initializeViewer returns, update goes on.
TokenResult(s, ok) ==
  /\ TaskMayStart
  /\ upd[s].pc = "tok"
  /\ upd' = [upd EXCEPT ![s].pc = IF ok THEN "launch" ELSE "cls"]
  /\ UNCHANGED <<dataVars, dbIdToColumnValueMap, viewerVars, sceneVars, timerVars, flagVars,
                 passVars, isGlobalColoringEnabled, colorJobs, guardResetTimers, hostFilter, call>>

\* launchViewer settles.  On success the viewer, the model and a new IdMapping (whose
\* constructor starts the scene's identifier query) are stored and a pending
\* selection is handed to syncSelectionState; on failure the catch block runs.
LaunchDone(s, ok) ==
  /\ TaskMayStart
  /\ upd[s].pc = "launch"
  /\ IF ok
     THEN /\ loads < MaxLoads
          /\ loads' = loads + 1
          /\ viewer' = TRUE
          /\ idMapping' = loads + 1
          /\ isViewerReady' = TRUE
          /\ mapState' = [mapState EXCEPT ![loads + 1] = "pending"]
          /\ sel' = {}
          /\ selProg' = FALSE
          /\ visible' = Nodes
          /\ themed' = {}
          /\ IF HasPending
             THEN /\ pendingSelection' = Null
                  /\ upd' = [upd EXCEPT ![s].pc = "sync_map", ![s].ctx = "ip",
                                         ![s].sids = pendingSelection,
                                         ![s].gen = loads + 1]
             ELSE /\ upd' = [upd EXCEPT ![s].pc = "cls"]
                  /\ UNCHANGED pendingSelection
     ELSE /\ upd' = [upd EXCEPT ![s].pc = "cls"]
          /\ UNCHANGED <<viewer, idMapping, isViewerReady, mapState, loads, sceneVars,
                         pendingSelection>>
  /\ UNCHANGED <<dataVars, dbIdToColumnValueMap, inits, timerVars, lastFilteredIds,
                 isDbIdSelectionActive, isProgrammaticSelection, passVars,
                 isGlobalColoringEnabled, colorJobs, guardResetTimers, hostFilter, call>>

\* update resumes after "await this.initializeViewer()".
UpdCls(s) ==
  /\ upd[s].pc = "cls"
  /\ Classify(s, upd[s].pag, upd[s].flt, upd[s].batch, externalIds, themed, colorJobs,
              ColorGroups)
  /\ UNCHANGED <<dataVars, dbIdToColumnValueMap, viewerVars, passVars,
                 isGlobalColoringEnabled, guardResetTimers, hostFilter, call>>

\* ------------------------------------------------ syncSelectionState
\* set(dbId, ExternalId) for every pair of new, replacing the entry of the dbId.
SetPairs(cache, new) == {p \in cache : \A q \in new : q[1] # p[1]} \cup new

\* The cache refresh of syncSelectionState for the resolved dbIds.
CacheAfterSync(cache, valid) == SetPairs(cache, {<<d, Reverse(d)>> : d \in Range(valid)})

\* An isolation that shows everything again when asked for the isolated set.
isolateDbIds_toggle(shown, dbIds) == IF shown = dbIds THEN Nodes ELSE dbIds
\* isolateDbIds(viewer, model, dbIds): the nodes shown afterwards.
isolateDbIds(shown, dbIds) == dbIds

\* An exception that leaves syncSelectionState with the scene as it was.
CatchBlock_absent == UNCHANGED <<sceneVars, timerVars>>
\* "catch (e)" of syncSelectionState: clearSelection, clearThemingColors, showAll.
CatchBlock == ShowAllFallback

\* syncSelectionState resumes with the settled mapping: getDbids, the cache refresh,
\* validation, container expansion, then either the fail-safe view or
\* clear / guard / isolate / highlight up to the await of the animation frame.
UpdSyncMap(s) ==
  LET u == upd[s]
      ok == MapStateOf(u.gen) = "resolved"
      valid == getDbids(u.sids)
      fin == ExpandedDbIds(valid)
      newSel == ProgrammaticSelect(fin)
  IN
  /\ u.pc = "sync_map"
  /\ MappingAwaited(u.gen)
  /\ dbIdToColumnValueMap' = IF ok THEN CacheAfterSync(dbIdToColumnValueMap, valid)
                                    ELSE dbIdToColumnValueMap
  /\ IF ~viewer
     THEN \* this.viewer is null: the sequence throws, and so does its catch block
          /\ IF u.ctx = "s1" THEN Done(s)
             ELSE upd' = [upd EXCEPT ![s].pc = "cls", ![s].ctx = "none", ![s].sids = <<>>,
                                     ![s].gen = 0]
          /\ UNCHANGED <<sceneVars, timerVars, isProgrammaticSelection>>
     ELSE IF ~ok \/ valid = <<>> \/ fin = {}
     THEN \* the catch block, "validDbIds.length === 0", or no dbId left to isolate
          /\ IF ok THEN ShowAllFallback ELSE CatchBlock
          /\ upd' = [upd EXCEPT ![s].pc = "sync_ret", ![s].sids = <<>>, ![s].gen = 0]
          /\ UNCHANGED isProgrammaticSelection
     ELSE /\ sel' = newSel
          /\ selProg' = (newSel # {})
          /\ themed' = fin
          /\ visible' = isolateDbIds(visible, fin)
          /\ isProgrammaticSelection' = TRUE
          /\ IF newSel # {} THEN Notified(TRUE)
             ELSE IF sel # {} THEN Notified(isProgrammaticSelection)
             ELSE UNCHANGED timerVars
          /\ upd' = [upd EXCEPT ![s].pc = "sync_raf", ![s].sids = <<>>, ![s].gen = 0]
  /\ UNCHANGED <<dataVars, viewerVars, lastFilteredIds, pendingSelection,
                 isDbIdSelectionActive, passVars, isGlobalColoringEnabled, colorJobs, guardResetTimers,
                 hostFilter, call>>

\* The animation frame arrives: fitToView, then the deferred reset of the guard is
\* scheduled and syncSelectionState returns.
UpdSyncRaf(s) ==
  /\ TaskMayStart
  /\ upd[s].pc = "sync_raf"
  /\ guardResetTimers < MaxResetTimers
  /\ guardResetTimers' = guardResetTimers + 1
  /\ upd' = [upd EXCEPT ![s].pc = "sync_ret"]
  /\ UNCHANGED <<dataVars, dbIdToColumnValueMap, viewerVars, sceneVars, timerVars, flagVars,
                 passVars, isGlobalColoringEnabled, colorJobs, hostFilter, call>>

\* As UpdSyncMap for identifiers that resolve, but a call of the viewer throws on
\* the way: in the validation or the expansion (the guard is not yet set), or in
\* isolate or the highlight (the guard is set).  The catch block runs and
\* syncSelectionState returns; no deferred reset of the guard is scheduled.
UpdSyncMapThrows(s, guarded) ==
  LET u == upd[s]
      valid == getDbids(u.sids)
  IN
  /\ u.pc = "sync_map"
  /\ MappingAwaited(u.gen)
  /\ viewer
  /\ MapStateOf(u.gen) = "resolved"
  /\ valid # <<>>
  /\ guarded => ExpandedDbIds(valid) # {}
  /\ dbIdToColumnValueMap' = CacheAfterSync(dbIdToColumnValueMap, valid)
  /\ CatchBlock
  /\ isProgrammaticSelection' = (guarded \/ isProgrammaticSelection)
  /\ upd' = [upd EXCEPT ![s].pc = "sync_ret", ![s].sids = <<>>, ![s].gen = 0]
  /\ UNCHANGED <<dataVars, viewerVars, lastFilteredIds, pendingSelection,
                 isDbIdSelectionActive, passVars, isGlobalColoringEnabled, colorJobs, guardResetTimers,
                 hostFilter, call>>

\* The animation frame arrives and viewer.fitToView throws: the catch block runs
\* and syncSelectionState returns without scheduling the deferred reset.
UpdSyncRafThrows(s) ==
  /\ TaskMayStart
  /\ upd[s].pc = "sync_raf"
  /\ viewer
  /\ CatchBlock
  /\ upd' = [upd EXCEPT ![s].pc = "sync_ret"]
  /\ UNCHANGED <<dataVars, dbIdToColumnValueMap, viewerVars, flagVars, passVars,
                 isGlobalColoringEnabled, colorJobs, guardResetTimers, hostFilter, call>>

\* The caller resumes after "await this.syncSelectionState(...)": update records
\* lastFilteredIds and resets the guard; initializeViewer clears pendingSelection.
UpdSyncRet(s) ==
  /\ upd[s].pc = "sync_ret"
  /\ IF upd[s].ctx = "s1"
     THEN /\ lastFilteredIds' = upd[s].ids
          /\ isProgrammaticSelection' = FALSE
          /\ themed' = FinalStep(themed)
          /\ colorJobs' = FinalJobs(colorJobs, ColorGroups)
          /\ Done(s)
          /\ UNCHANGED pendingSelection
     ELSE /\ pendingSelection' = Null
          /\ upd' = [upd EXCEPT ![s].pc = "cls", ![s].ctx = "none"]
          /\ UNCHANGED <<lastFilteredIds, isProgrammaticSelection, themed, colorJobs>>
  /\ UNCHANGED <<dataVars, dbIdToColumnValueMap, viewerVars, sel, selProg, visible,
                 timerVars, isDbIdSelectionActive, passVars, isGlobalColoringEnabled,
                 guardResetTimers, hostFilter, call>>

\* ------------------------------------------- update: the other branches
\* The awaited syncColors() of the cycle u ends with a rejection: it went on to
\* getDbids and applyColorToExternalIds threw there.
SyncColorsRejects(u) == u.gen # 0 /\ ~ColorsApplied(u.gen, Range(u.sids))

\* The theming when the awaited syncColors() of the cycle u has returned.
ThemedAfterColors(u, t) == IF u.gen # 0 /\ viewer THEN t \cup ColoredDbIds(Range(u.sids)) ELSE t

\* STATE 2 resumes after "await this.syncColors()": the guard is reset, unless
\* syncColors rejected.
UpdS2Col(s) ==
  /\ upd[s].pc = "s2_col"
  /\ MappingAwaited(upd[s].gen)
  /\ IF SyncColorsRejects(upd[s])
     THEN \* the rejection ends update before the statements after the await
          UNCHANGED <<isProgrammaticSelection, themed, colorJobs>>
     ELSE /\ isProgrammaticSelection' = FALSE
          /\ themed' = FinalStep(ThemedAfterColors(upd[s], themed))
          /\ colorJobs' = FinalJobs(colorJobs, ColorGroups)
  /\ Done(s)
  /\ UNCHANGED <<dataVars, dbIdToColumnValueMap, viewerVars, sel, selProg, visible,
                 timerVars, lastFilteredIds, pendingSelection, isDbIdSelectionActive,
                 passVars, isGlobalColoringEnabled, guardResetTimers, hostFilter, call>>

IsPrefix(a, b) == Len(a) <= Len(b) /\ SubSeq(b, 1, Len(a)) = a

\* buildReverseMapping after its await: dbIds of the array handed to getDbids,
\* paired by index with this.externalIds.
CacheAfterBuild(cache, arr, ext) ==
  LET dbIds == getDbids(arr)
      n == Min(Len(dbIds), Len(ext))
  IN IF dbIds = <<>> THEN cache
     ELSE {<<dbIds[i], ext[i]>> : i \in {j \in 1..n : \A k \in (j + 1)..n : dbIds[k] # dbIds[j]}}

\* STATE 3 resumes from buildReverseMapping and calls syncColors.
UpdS3Rev(s) ==
  LET u == upd[s]
      arr == IF IsPrefix(u.sids, externalIds) THEN externalIds ELSE u.sids
  IN
  /\ u.pc = "s3_rev"
  /\ MappingAwaited(u.gen)
  /\ dbIdToColumnValueMap' =
       IF MapStateOf(u.gen) = "resolved"
       THEN CacheAfterBuild(dbIdToColumnValueMap, arr, externalIds)
       ELSE dbIdToColumnValueMap
  /\ themed' = ThemedAfterSyncColors(themed)
  /\ upd' = [upd EXCEPT ![s] =
        [IdleUpd EXCEPT !.pc = "s3_col",
                        !.sids = IF isGlobalColoringEnabled /\ AwaitsColors(ColorGroups)
                                 THEN SeqOfSet(ColorGroups) ELSE <<>>,
                        !.gen = IF isGlobalColoringEnabled /\ AwaitsColors(ColorGroups)
                                THEN idMapping ELSE 0]]
  /\ UNCHANGED <<dataVars, viewerVars, sel, selProg, visible, timerVars, flagVars,
                 passVars, isGlobalColoringEnabled, colorJobs, guardResetTimers, hostFilter, call>>

\* STATE 3 resumes after "await this.syncColors()".
UpdS3Col(s) ==
  /\ upd[s].pc = "s3_col"
  /\ MappingAwaited(upd[s].gen)
  /\ IF SyncColorsRejects(upd[s])
     THEN \* the rejection ends update before the final step
          UNCHANGED <<themed, colorJobs>>
     ELSE /\ themed' = FinalStep(ThemedAfterColors(upd[s], themed))
          /\ colorJobs' = FinalJobs(colorJobs, ColorGroups)
  /\ Done(s)
  /\ UNCHANGED <<dataVars, dbIdToColumnValueMap, viewerVars, sel, selProg, visible,
                 timerVars, flagVars, passVars, isGlobalColoringEnabled, guardResetTimers,
                 hostFilter, call>>

\* ------------------------------------------------------------ behaviours
Ops == {"Create", "Append", "Other"}
DataViews == {"none", "nourn", "full"}

\* Rows per table in the tables of RawRows.
MaxRows == 2

\* Tables whose cells are clean ids in column order, and all tables of up to MaxRows
\* cells.
TableRows == Batches
RawRows == UNION {[1..n -> Cells] : n \in 0..MaxRows}

\* The update options the host sends with tables from R: rows carry a URN and the
\* cells of the externalIds column; "nourn" is a table without a urn column, "none"
\* an update without a table.
OptionsOver(R) ==
  {o \in [dv : DataViews, op : Ops, seg : BOOLEAN, flt : BOOLEAN, rows : R,
          urn : Urns \cup {NoUrn}] :
     /\ (o.urn = NoUrn /\ o.dv = "full") => o.rows = <<>>
     /\ o.dv = "none" => o.rows = <<>>
     /\ o.dv # "full" => o.op = "Create" /\ ~o.seg /\ ~o.flt /\ o.urn = NoUrn
     \* a segment marker makes a difference only for Create (isPaginating is
     \* "isAppend || hasSegment", and neither Append nor any other kind resets)
     /\ o.seg => o.op = "Create"}

UpdateOptions == OptionsOver(TableRows)
RawUpdateOptions == OptionsOver(RawRows)

\* update(options) for the options record o.
Update(s, o) ==
  HostUpdate(s, o.dv, o.op, o.seg, o.flt, Len(o.rows), currentBatchIds(o.rows), o.urn)

\* The host delivers an update only after the previous cycle has returned: one slot.
Serial == {1}

\* An update of a behaviour in which the viewer is initialised at most SerialInits times.
SerialUpdate(s, o) ==
  /\ Update(s, o)
  /\ inits' <= SerialInits

Next ==
  \/ \E s \in Serial, o \in UpdateOptions : SerialUpdate(s, o)
  \/ \E s \in Serial, ok \in BOOLEAN : TokenResult(s, ok)
  \/ \E s \in Serial, ok \in BOOLEAN : LaunchDone(s, ok)
  \/ \E s \in Serial : UpdCls(s)
  \/ \E s \in Serial : UpdSyncMap(s)
  \/ \E s \in Serial : UpdSyncRaf(s)
  \/ \E s \in Serial : UpdSyncRet(s)
  \/ \E s \in Serial : UpdS2Col(s)
  \/ \E s \in Serial : UpdS3Rev(s)
  \/ \E s \in Serial : UpdS3Col(s)
  \/ \E S \in Selections : UserSelect(S)
  \/ DebounceFire
  \/ \E i \in 1..Len(passes) : PassThrow(i)
  \/ \E i \in 1..Len(passes) : PassEmitClear(i)
  \/ \E i \in 1..Len(passes) : PassNoData(i)
  \/ \E i \in 1..Len(passes) : PassEmitFilter(i)
  \/ GuardResetFire
  \/ \E g \in Gens, outcome \in {"resolved", "rejected"} : MappingSettle(g, outcome)

Spec == Init /\ [][Next]_vars

\* The incoming direction alone: the host sends updates, also while earlier cycles
\* are suspended at an await, the viewer is initialised up to HostInits times, the
\* user selects nothing in the scene.
HostedUpdate(s, o) ==
  /\ Update(s, o)
  /\ inits' <= HostInits

NextHost ==
  \/ \E s \in Slots, o \in UpdateOptions : HostedUpdate(s, o)
  \/ \E s \in Slots, ok \in BOOLEAN : TokenResult(s, ok)
  \/ \E s \in Slots, ok \in BOOLEAN : LaunchDone(s, ok)
  \/ \E s \in Slots : UpdCls(s)
  \/ \E s \in Slots : UpdSyncMap(s)
  \/ \E s \in Slots : UpdSyncRaf(s)
  \/ \E s \in Slots : UpdSyncRet(s)
  \/ \E s \in Slots : UpdS2Col(s)
  \/ \E s \in Slots : UpdS3Rev(s)
  \/ \E s \in Slots : UpdS3Col(s)
  \/ GuardResetFire
  \/ \E g \in Gens, outcome \in {"resolved", "rejected"} : MappingSettle(g, outcome)

SpecHost == Init /\ [][NextHost]_vars

\* The incoming direction with the paint-bucket button: updates one after the
\* other with the tables of TableRows, one initialisation, the user toggles the
\* global colouring at any time.
NextIncoming ==
  \/ \E s \in Serial, o \in UpdateOptions : SerialUpdate(s, o)
  \/ \E s \in Serial, ok \in BOOLEAN : TokenResult(s, ok)
  \/ \E s \in Serial, ok \in BOOLEAN : LaunchDone(s, ok)
  \/ \E s \in Serial : UpdCls(s)
  \/ \E s \in Serial : UpdSyncMap(s)
  \/ \E s \in Serial : UpdSyncRaf(s)
  \/ \E s \in Serial : UpdSyncRet(s)
  \/ \E s \in Serial : UpdS2Col(s)
  \/ \E s \in Serial : UpdS3Rev(s)
  \/ \E s \in Serial : UpdS3Col(s)
  \/ GuardResetFire
  \/ ToolbarToggle
  \/ \E g \in Gens, outcome \in {"resolved", "rejected"} : MappingSettle(g, outcome)

SpecIncoming == Init /\ [][NextIncoming]_vars

\* Paging and filtering of a report: updates one after the other with any table of
\* RawRows, one initialisation, nobody touches the scene or the toolbar.
NextPaging ==
  \/ \E s \in Serial, o \in RawUpdateOptions : SerialUpdate(s, o)
  \/ \E s \in Serial, ok \in BOOLEAN : TokenResult(s, ok)
  \/ \E s \in Serial, ok \in BOOLEAN : LaunchDone(s, ok)
  \/ \E s \in Serial : UpdCls(s)
  \/ \E s \in Serial : UpdSyncMap(s)
  \/ \E s \in Serial : UpdSyncRaf(s)
  \/ \E s \in Serial : UpdSyncRet(s)
  \/ \E s \in Serial : UpdS2Col(s)
  \/ \E s \in Serial : UpdS3Rev(s)
  \/ \E s \in Serial : UpdS3Col(s)
  \/ GuardResetFire
  \/ \E g \in Gens, outcome \in {"resolved", "rejected"} : MappingSettle(g, outcome)

SpecPaging == Init /\ [][NextPaging]_vars

\* Reports that lose and regain the model: updates without a table and filtered or
\* unfiltered Create updates with the one row "A", also while earlier cycles are
\* suspended, the viewer initialised up to MaxInits times.
PendingOptions ==
  {o \in UpdateOptions :
     \/ o.dv = "none"
     \/ o.dv = "full" /\ o.op = "Create" /\ ~o.seg /\ o.urn # NoUrn /\ o.rows = <<"A">>}

NextPending ==
  \/ \E s \in Slots, o \in PendingOptions : Update(s, o)
  \/ \E s \in Slots, ok \in BOOLEAN : TokenResult(s, ok)
  \/ \E s \in Slots, ok \in BOOLEAN : LaunchDone(s, ok)
  \/ \E s \in Slots : UpdCls(s)
  \/ \E s \in Slots : UpdSyncMap(s)
  \/ \E s \in Slots : UpdSyncRaf(s)
  \/ \E s \in Slots : UpdSyncRet(s)
  \/ \E s \in Slots : UpdS2Col(s)
  \/ \E s \in Slots : UpdS3Rev(s)
  \/ \E s \in Slots : UpdS3Col(s)
  \/ GuardResetFire
  \/ \E g \in Gens, outcome \in {"resolved", "rejected"} : MappingSettle(g, outcome)

SpecPending == Init /\ [][NextPending]_vars

\* The same reports with the event loop at work: a fetch and a viewer launch
\* settle, the scene's identifier query settles, a runnable continuation of an
\* update cycle runs, an animation frame arrives and a timer that is due elapses.
\* Nothing obliges the host to send another update.
SpecPendingFair ==
  /\ SpecPending
  /\ WF_vars(\E s \in Slots, ok \in BOOLEAN : TokenResult(s, ok))
  /\ WF_vars(\E s \in Slots, ok \in BOOLEAN : LaunchDone(s, ok))
  /\ \A s \in Slots :
        /\ WF_vars(UpdCls(s))
        /\ WF_vars(UpdSyncMap(s))
        /\ WF_vars(UpdSyncRaf(s))
        /\ WF_vars(UpdSyncRet(s))
        /\ WF_vars(UpdS2Col(s))
        /\ WF_vars(UpdS3Rev(s))
        /\ WF_vars(UpdS3Col(s))
  /\ WF_vars(GuardResetFire)
  /\ WF_vars(\E g \in Gens, outcome \in {"resolved", "rejected"} : MappingSettle(g, outcome))

\* The outgoing direction: the user selects a mapped element, a leaf below it, an
\* element without any ExternalId on its path, or a leaf together with another
\* mapped element; the host sends the updates of PendingOptions one after the other.
PickedSelections == {{}, {1}, {2}, {3}, {2, 4}}

NextOutgoing ==
  \/ \E s \in Serial, o \in PendingOptions : SerialUpdate(s, o)
  \/ \E s \in Serial, ok \in BOOLEAN : TokenResult(s, ok)
  \/ \E s \in Serial, ok \in BOOLEAN : LaunchDone(s, ok)
  \/ \E s \in Serial : UpdCls(s)
  \/ \E s \in Serial : UpdSyncMap(s)
  \/ \E s \in Serial : UpdSyncRaf(s)
  \/ \E s \in Serial : UpdSyncRet(s)
  \/ \E s \in Serial : UpdS2Col(s)
  \/ \E s \in Serial : UpdS3Rev(s)
  \/ \E s \in Serial : UpdS3Col(s)
  \/ \E S \in PickedSelections : UserSelect(S)
  \/ DebounceFire
  \/ \E i \in 1..Len(passes) : PassThrow(i)
  \/ \E i \in 1..Len(passes) : PassEmitClear(i)
  \/ \E i \in 1..Len(passes) : PassNoData(i)
  \/ \E i \in 1..Len(passes) : PassEmitFilter(i)
  \/ GuardResetFire
  \/ \E g \in Gens, outcome \in {"resolved", "rejected"} : MappingSettle(g, outcome)

SpecOutgoing == Init /\ [][NextOutgoing]_vars

\* Reports with a colour column: every table with a URN carries one, and its rows
\* all have the one category.
ColoredOptions ==
  {[o EXCEPT !.dv = "colored"] : o \in {p \in UpdateOptions : p.dv = "full"}}
    \cup {p \in UpdateOptions : p.dv = "none"}

NextColors ==
  \/ \E s \in Serial, o \in ColoredOptions : SerialUpdate(s, o)
  \/ \E s \in Serial, ok \in BOOLEAN : TokenResult(s, ok)
  \/ \E s \in Serial, ok \in BOOLEAN : LaunchDone(s, ok)
  \/ \E s \in Serial : UpdCls(s)
  \/ \E s \in Serial : UpdSyncMap(s)
  \/ \E s \in Serial : UpdSyncRaf(s)
  \/ \E s \in Serial : UpdSyncRet(s)
  \/ \E s \in Serial : UpdS2Col(s)
  \/ \E s \in Serial : UpdS3Rev(s)
  \/ \E s \in Serial : UpdS3Col(s)
  \/ GuardResetFire
  \/ ToolbarToggle
  \/ \E g \in Gens, ids \in SUBSET EIDs : ColorJobRuns([gen |-> g, ids |-> ids])
  \/ \E g \in Gens, outcome \in {"resolved", "rejected"} : MappingSettle(g, outcome)

SpecColors == Init /\ [][NextColors]_vars

\* The incoming direction with a viewer whose calls may throw.
NextThrowing ==
  \/ NextIncoming
  \/ \E s \in Serial, guarded \in BOOLEAN : UpdSyncMapThrows(s, guarded)
  \/ \E s \in Serial : UpdSyncRafThrows(s)

SpecThrowing == Init /\ [][NextThrowing]_vars

\* A report at rest: the host repeats one update - the table with the row "A" and
\* its colour category, unfiltered, no segment, no data-change kind - also while
\* an earlier cycle is suspended, and the user toggles the global colouring.
SteadyOptions ==
  {o \in ColoredOptions :
     o.dv = "colored" /\ o.op = "Other" /\ ~o.seg /\ ~o.flt /\ o.urn # NoUrn /\ o.rows = <<"A">>}

NextSteady ==
  \/ \E s \in Slots, o \in SteadyOptions : HostedUpdate(s, o)
  \/ \E s \in Slots, ok \in BOOLEAN : TokenResult(s, ok)
  \/ \E s \in Slots, ok \in BOOLEAN : LaunchDone(s, ok)
  \/ \E s \in Slots : UpdCls(s)
  \/ \E s \in Slots : UpdS3Rev(s)
  \/ \E s \in Slots : UpdS3Col(s)
  \/ ToolbarToggle
  \/ \E g \in Gens, ids \in SUBSET EIDs : ColorJobRuns([gen |-> g, ids |-> ids])
  \/ \E g \in Gens, outcome \in {"resolved", "rejected"} : MappingSettle(g, outcome)

SpecSteady == Init /\ [][NextSteady]_vars

\* Reports over a scene whose mapping holds a stale entry: the tables carry "A",
\* the stale "S", both or nothing; updates come one after the other, and
\* IdMapping.validateDbIds is called on its own with an array of an existing and a
\* missing dbId.
StaleRows == {<<>>, <<"A">>, <<"S">>, <<"A", "S">>}
StaleOptions == OptionsOver(StaleRows)
MaxValidated == 2
ValidatedArrays == UNION {[1..n -> {1, 9}] : n \in 0..MaxValidated}

InitStale ==
  /\ InitFields
  /\ call \in {[fn |-> "validateDbIds", arg |-> a, done |-> FALSE, res |-> <<>>] :
                 a \in ValidatedArrays}

ValidateDbIdsReturns ==
  /\ call.fn = "validateDbIds"
  /\ ~call.done
  /\ call' = [call EXCEPT !.done = TRUE, !.res = validateDbIds(call.arg)]
  /\ UNCHANGED <<dataVars, dbIdToColumnValueMap, viewerVars, sceneVars, timerVars, flagVars,
                 passVars, isGlobalColoringEnabled, colorJobs, upd, guardResetTimers, hostFilter>>

NextStale ==
  \/ \E s \in Serial, o \in StaleOptions : SerialUpdate(s, o)
  \/ \E s \in Serial, ok \in BOOLEAN : TokenResult(s, ok)
  \/ \E s \in Serial, ok \in BOOLEAN : LaunchDone(s, ok)
  \/ \E s \in Serial : UpdCls(s)
  \/ \E s \in Serial : UpdSyncMap(s)
  \/ \E s \in Serial : UpdSyncRaf(s)
  \/ \E s \in Serial : UpdSyncRet(s)
  \/ \E s \in Serial : UpdS2Col(s)
  \/ \E s \in Serial : UpdS3Rev(s)
  \/ \E s \in Serial : UpdS3Col(s)
  \/ GuardResetFire
  \/ \E g \in Gens, outcome \in {"resolved", "rejected"} : MappingSettle(g, outcome)
  \/ ValidateDbIdsReturns

SpecStale == InitStale /\ [][NextStale]_vars

\* Texts handed to IdMapping as ExternalIds, and the arrays of up to MaxIds of them.
IdCells == Cells \cup {"B"}
MaxIds == 3
IdArrays == UNION {[1..n -> IdCells] : n \in 0..MaxIds}

\* IdMapping.getDbids on its own: some array is handed to it ...
InitIdMapping ==
  /\ InitFields
  /\ call \in {[fn |-> "getDbids", arg |-> a, done |-> FALSE, res |-> <<>>] : a \in IdArrays}

\* ... and, the mapping being resolved, it returns.
GetDbidsReturns ==
  /\ call.fn = "getDbids"
  /\ ~call.done
  /\ call' = [call EXCEPT !.done = TRUE, !.res = getDbids(call.arg)]
  /\ UNCHANGED <<dataVars, dbIdToColumnValueMap, viewerVars, sceneVars, timerVars, flagVars,
                 passVars, isGlobalColoringEnabled, colorJobs, upd, guardResetTimers, hostFilter>>

SpecIdMapping == InitIdMapping /\ [][GetDbidsReturns]_vars

\* ---------------------------------------------------------- properties
PassIds == 1..Len(passes)

\* A request leaves: host.applyJsonFilter is called by pass i in this step.
Emits(i) == PassEmitClear(i) \/ PassEmitFilter(i)

\* C1 (no feedback loop): no pass ever emits an outgoing filter for a selection
\* that the isolation sequence itself put into the viewer, in any interleaving of
\* the isolation, its notifications, the debounce timer and the guard resets.
C1_NoFeedbackLoop == [][\A i \in PassIds : PassEmitFilter(i) => ~passes[i].prog]_vars

\* The scene is isolated and a pass started by a notification that the isolation
\* raised under the guard is running.
C1_Witness == visible # Nodes /\ \E i \in PassIds : passes[i].guarded /\ ~passes[i].prog

\* C2 (guarded notifications are ignored): a pass started by a notification that
\* was raised while isProgrammaticSelection was true never calls
\* host.applyJsonFilter and never changes isDbIdSelectionActive.
C2_GuardedNotificationIgnored ==
  [][\A i \in PassIds : passes[i].guarded =>
        ~Emits(i) /\ isDbIdSelectionActive' = isDbIdSelectionActive]_vars

\* update is inside its external-filter branch (STATE 1) or its filter-clear
\* branch (STATE 2): the guard was set by it and the branch has not returned.
IncomingActive ==
  \E s \in Slots :
     \/ (upd[s].ctx = "s1" /\ upd[s].pc \in {"sync_map", "sync_raf", "sync_ret"})
     \/ upd[s].pc = "s2_col"

\* C3 (mutual exclusion): while update is inside its external-filter or
\* filter-clear branch no pass, new, suspended or re-run, emits a request.
C3_MutualExclusion == [][\A i \in PassIds : IncomingActive => ~Emits(i)]_vars

\* handleSelectionChange is invoked past its guard checks in this step.
Invoked == DebounceFire /\ viewer /\ idMapping # 0 /\ ~isProgrammaticSelection

\* C4 (at most one pass): after every step at most one invocation holds the lock,
\* isProcessingSelection is true exactly when one does, and an invocation that
\* arrives meanwhile only sets isUpdatePending.
C4_AtMostOnePass ==
  [][/\ Len(passes') <= 1
     /\ isProcessingSelection' <=> (Len(passes') = 1)
     /\ (Invoked /\ isProcessingSelection) =>
          /\ isUpdatePending'
          /\ UNCHANGED <<passes, isProcessingSelection, isDbIdSelectionActive, hostFilter>>]_vars

\* A pass holds the lock and a second invocation has been recorded.
C4_Witness == isProcessingSelection /\ isUpdatePending /\ Len(passes) = 1

\* C5 (pending re-run before release): a request recorded in isUpdatePending is
\* served before the lock is released, so none is left once the lock is free.
C5_PendingServedBeforeRelease == isUpdatePending => isProcessingSelection

\* Nothing is in flight: no timer, no pass, no update cycle.
Quiescent ==
  /\ selectionDebounceTimer = 0
  /\ guardResetTimers = 0
  /\ passes = <<>>
  /\ \A s \in Slots : upd[s].pc = "idle"

\* C6 (eventual consistency): once everything has settled and the invocation of
\* the last notification was not turned away, the last request sent to the host is
\* the filter of the final selection (the null filter when it maps to nothing).
C6_LastRequestIsFinalSelection ==
  (Quiescent /\ viewer /\ ~dropped /\ hostFilter # Unset) => hostFilter = getExternalIds(sel)

\* C7 (debounce collapse): however many notifications arrive while a timer is
\* live there is exactly one live timer, its elapsing leaves none, so the burst
\* causes one invocation, and the pass it starts reads the viewer's selection.
C7_DebounceCollapse ==
  [][/\ selectionDebounceTimer' \in {0, 1}
     /\ (burst' > 0) <=> (selectionDebounceTimer' = 1)
     /\ DebounceFire =>
          /\ selectionDebounceTimer' = 0
          /\ \A i \in 1..Len(passes') : i > Len(passes) => passes'[i].snap = sel]_vars

\* The one invocation after a burst of MaxBurst notifications runs on the selection
\* the viewer holds.
C7_Witness ==
  selectionDebounceTimer = 0 /\ \E i \in PassIds : passes[i].full /\ passes[i].snap = sel

\* C8 (empty selection): a pass that read an empty selection asks the mapping
\* nothing, and ends by host.applyJsonFilter(null) with isDbIdSelectionActive false.
C8_EmptySelectionClears ==
  [][\A i \in PassIds : passes[i].snap = {} =>
        /\ ~passes[i].mapped
        /\ passes' # passes => PassEmitClear(i) /\ hostFilter' = {} /\ ~isDbIdSelectionActive']_vars

\* A pass has read an empty selection while the own-filter flag is set.
C8_Witness == \E i \in PassIds : passes[i].snap = {} /\ isDbIdSelectionActive

\* The classification of update runs in this step for a cycle of slot s whose
\* isPaginating is pag.
Classifies(s, pag) ==
  \/ (UpdCls(s) /\ upd[s].pag = pag)
  \/ \E o \in UpdateOptions :
        /\ o.dv = "full"
        /\ (o.op = "Append" \/ o.seg) = pag
        /\ Update(s, o)
        /\ upd'[s].pc # "tok"

\* C9 (PAGINATING): the classification of an Append or segmented cycle isolates
\* nothing, shows nothing, clears neither selection nor theming and leaves
\* lastFilteredIds as it is.
C9_PaginatingIsNoOp ==
  [][\A s \in Slots : Classifies(s, TRUE) =>
        UNCHANGED <<lastFilteredIds, visible, sel, themed>>]_vars

\* C10 (OWN_SELECTION_ECHO): the non-paginating cycle that finds
\* isDbIdSelectionActive set clears it, so the suppression lasts one cycle.
C10_EchoSuppressedOnce ==
  [][\A s \in Slots : (Classifies(s, FALSE) /\ isDbIdSelectionActive) =>
        ~isDbIdSelectionActive']_vars

\* ------------------------------------------------ properties of the classifier
\* isPaginating of the options record o.
Paginating(o) == o.op = "Append" \/ o.seg

\* update(o) of slot s reaches its classification in this very step (the viewer
\* needs no initialisation).
DirectClassification(s, o) == o.dv = "full" /\ Update(s, o) /\ upd'[s].pc # "tok"

\* A batch with as many ids as the accumulated dataset but not the same ids.
SameSizeOtherContent(cb, ext) == cb # <<>> /\ Len(cb) = Len(ext) /\ Range(cb) # Range(ext)

\* The cycle of slot s is treated as an external filter on cb in this step: the
\* isolation of cb starts, or, the viewer not being ready, cb is stored.
ClassifiedExternal(s, cb) ==
  \/ upd'[s].pc = "sync_map" /\ upd'[s].ctx = "s1" /\ upd'[s].ids = cb
  \/ NotReady /\ pendingSelection' = cb /\ lastFilteredIds' = cb

\* C11 (set-equality tie-break): a non-paginating cycle without own filter in
\* flight whose batch has the size of the accumulated ids but other contents is
\* classified as an external filter, whether it is classified at once or after the
\* viewer initialisation it awaited.
C11_SetEqualityTieBreak ==
  [][\A s \in Slots :
       /\ (/\ UpdCls(s)
           /\ ~upd[s].pag /\ ~isDbIdSelectionActive
           /\ SameSizeOtherContent(upd[s].batch, externalIds))
          => ClassifiedExternal(s, upd[s].batch)
       /\ \A o \in UpdateOptions :
            (/\ DirectClassification(s, o)
             /\ ~Paginating(o) /\ ~isDbIdSelectionActive
             /\ SameSizeOtherContent(currentBatchIds(o.rows), externalIds'))
            => ClassifiedExternal(s, currentBatchIds(o.rows))]_vars

\* The external-filter branch (STATE 1) of the cycle of slot s is entered in this step.
EntersExternalFilter(s) == upd'[s].ctx = "s1" /\ upd[s].ctx # "s1"

\* C12 (classifier rule 3): a cycle starts an isolation only for a batch that is a
\* non-empty proper subset of the accumulated ids, in a cycle that is not
\* paginating and finds no own filter in flight, and the isolation is asked for
\* exactly the ids of the batch.
C12_IsolationOnlyForProperSubset ==
  [][\A s \in Slots : EntersExternalFilter(s) =>
        /\ upd'[s].ids # <<>>
        /\ Range(upd'[s].ids) \subseteq Range(externalIds')
        /\ Range(upd'[s].ids) # Range(externalIds')
        /\ ~isDbIdSelectionActive
        /\ UpdCls(s) => (~upd[s].pag /\ upd'[s].ids = upd[s].batch)
        /\ upd'[s].sids = upd'[s].ids]_vars

\* The scene after the filter-clear actions: every node shown, no node highlighted
\* (no colour column: nothing is re-coloured), no external filter recorded.
FilterClearedScene == visible' = Nodes /\ themed' = {} /\ lastFilteredIds' = Null

\* C13 (classifier rule 4, FILTER_CLEARING): a non-paginating, unfiltered cycle
\* whose non-empty batch holds exactly the accumulated ids, arriving while an external filter
\* is recorded and no own filter is in flight, shows all nodes, clears the
\* highlight and sets lastFilteredIds to null.
C13_FilterClearing ==
  [][\A s \in Slots :
       /\ (/\ UpdCls(s)
           /\ lastFilteredIds # Null /\ ~isDbIdSelectionActive
           /\ ~upd[s].pag /\ ~upd[s].flt
           /\ upd[s].batch # <<>> /\ Range(upd[s].batch) = Range(externalIds))
          => FilterClearedScene
       /\ \A o \in UpdateOptions :
            (/\ DirectClassification(s, o)
             /\ lastFilteredIds # Null /\ ~isDbIdSelectionActive
             /\ ~Paginating(o) /\ ~o.flt
             /\ o.rows # <<>> /\ Range(currentBatchIds(o.rows)) = Range(externalIds'))
            => FilterClearedScene]_vars

\* The nodes an isolation of the ids isolates and highlights.
IsolationOf(ids) == ExpandedDbIds(getDbids(ids))

\* C14 (external-filter scenario): when the cycle of an external filter whose ids
\* the scene resolves returns, with the fire-and-forget colour sync of its last
\* statement started, the scene is isolated to the expansion of the filtered
\* nodes, each of them carries the highlight and lastFilteredIds holds the batch.
C14_ExternalFilterApplied ==
  [][\A s \in Slots :
       (/\ UpdSyncRet(s)
        /\ upd[s].ctx = "s1"
        /\ getDbids(upd[s].ids) # <<>>
        /\ visible = IsolationOf(upd[s].ids) /\ themed = IsolationOf(upd[s].ids))
       => /\ visible' = IsolationOf(upd[s].ids)
          /\ themed' = IsolationOf(upd[s].ids)
          /\ lastFilteredIds' = upd[s].ids]_vars

\* The cycle of slot s is the initial load: the only initialisation so far, of an
\* unfiltered and non-paginated table with rows.
InitialLoad(s) == inits = 1 /\ ~upd[s].pag /\ ~upd[s].flt /\ upd[s].batch # <<>>

\* Nothing isolated, nothing coloured, no filter remembered, no selection pending.
SteadyScene ==
  visible = Nodes /\ themed = {} /\ lastFilteredIds = Null /\ pendingSelection = Null

\* C15 (initial-load scenario): the classification of an unfiltered, non-paginated
\* first update takes the steady branch when the viewer is ready and returns at
\* once when it is not, never the isolation sequence; and neither it nor the
\* steps of the steady branch isolate a node, colour a node, or set
\* lastFilteredIds or pendingSelection.
C15_InitialLoadSteady ==
  [][\A s \in Slots :
       /\ (UpdCls(s) /\ InitialLoad(s))
          => /\ upd'[s].pc = IF NotReady THEN "idle" ELSE "s3_rev"
             /\ upd'[s].ctx = "none"
             /\ SteadyScene'
       /\ ((UpdS3Rev(s) \/ UpdS3Col(s)) /\ SteadyScene) => SteadyScene']_vars

\* The initial load waits in the steady branch for the identifiers of the scene.
C15_Witness ==
  /\ upd[1].pc = "s3_rev" /\ upd[1].sids = externalIds /\ externalIds # <<>>
  /\ inits = 1 /\ MapStateOf(idMapping) = "pending" /\ SteadyScene

\* The stored pending selection is handed to syncSelectionState by the cycle of slot s.
PendingApplied(s) ==
  /\ upd'[s].pc = "sync_map" /\ upd[s].pc # "sync_map"
  /\ upd'[s].sids = pendingSelection
  /\ pendingSelection' = Null

\* A newer external filter is stored in its place.
PendingReplaced == pendingSelection' # Null /\ lastFilteredIds' = pendingSelection'

\* destroyViewer() runs.
ViewerDestroyed == viewer /\ ~viewer' /\ pendingSelection' = Null

\* C16 (pending selection): (1) a cycle that detects an external filter while the
\* viewer is not ready stores its ids in pendingSelection and lastFilteredIds;
\* (2) a viewer initialisation that succeeds with a stored selection hands it to the
\* isolation sequence, which isolates its nodes, and pendingSelection becomes null;
\* (3) a stored pending selection changes only by being applied, by being replaced
\* by a newer one, or by destroyViewer.
C16_PendingSelection ==
  [][\A s \in Slots :
       /\ (/\ UpdCls(s) /\ NotReady /\ upd[s].batch # <<>>
           /\ IsExternalFilter(upd[s].pag, upd[s].flt, upd[s].batch, externalIds))
          => pendingSelection' = upd[s].batch /\ lastFilteredIds' = upd[s].batch
       /\ (LaunchDone(s, TRUE) /\ pendingSelection # Null /\ pendingSelection # <<>>)
          => PendingApplied(s)
       /\ (/\ UpdSyncMap(s) /\ upd[s].ctx = "ip" /\ viewer
           /\ MapStateOf(upd[s].gen) = "resolved" /\ getDbids(upd[s].sids) # <<>>)
          => visible' = IsolationOf(upd[s].sids)
       /\ (pendingSelection # Null /\ pendingSelection' # pendingSelection)
          => (\E t \in Slots : PendingApplied(t)) \/ PendingReplaced \/ ViewerDestroyed]_vars

\* Updates whose table the host has filtered (isDataFilterApplied is true).
FilteredOptions == {o \in UpdateOptions : o.dv = "full" /\ o.flt}

\* The accumulated dataset is the same after the step.
DatasetFrozen == UNCHANGED <<externalIds, allDbIds, allRows>>

\* C17 (pagination freeze): an update whose table is filtered, of any operation
\* kind, leaves externalIds, allDbIds and allRows as they were, and so does every
\* later step of an update cycle, up to its return.
C17_PaginationFreeze ==
  [][\A s \in Slots :
       /\ \A o \in FilteredOptions : Update(s, o) => DatasetFrozen
       /\ (upd[s].pc # "idle" /\ upd'[s] # upd[s]) => DatasetFrozen]_vars

\* A filtered update whose rows are all of the accumulated dataset, "A" and "X", is
\* in its isolation sequence, and the dataset is still held.
C17_Witness ==
  /\ upd[1].ctx = "s1" /\ upd[1].ids = externalIds
  /\ externalIds = <<"A", "X">> /\ allDbIds = externalIds /\ allRows = 1

\* Updates whose table the host has not filtered.
UnfilteredOptions == {o \in RawUpdateOptions : o.dv = "full" /\ ~o.flt}

\* The distinct non-blank trimmed ExternalIds of the rows of a table.
TrimmedIds(rows) == {Trim(rows[i]) : i \in {j \in 1..Len(rows) : rows[j] # NoId}} \ {""}

NoDuplicates(ids) == \A i, j \in 1..Len(ids) : i # j => ids[i] # ids[j]

\* C18 (data accumulator): after an unfiltered Create update the accumulated ids are,
\* as a set, the distinct non-blank trimmed ids of its rows; after any other
\* unfiltered update they are the previous set united with them; externalIds holds
\* no id twice; and a step after which an accumulated id is gone is an
\* unfiltered Create update.
C18_DataAccumulator ==
  [][/\ \A s \in Slots, o \in UnfilteredOptions :
          Update(s, o)
          => /\ Range(externalIds') =
                  (IF o.op = "Create" THEN {} ELSE Range(externalIds))
                     \cup TrimmedIds(o.rows)
             /\ NoDuplicates(externalIds')
     /\ Range(externalIds) \subseteq Range(externalIds')
        \/ \E s \in Slots, o \in UnfilteredOptions : o.op = "Create" /\ Update(s, o)]_vars

\* Pages of an unfiltered table have been united: "A" came first, "X" with a later page.
C18_Witness ==
  /\ externalIds = <<"A", "X">> /\ allDbIds = externalIds
  /\ currentDataView = "full" /\ lastFilteredIds = Null /\ upd[1].pc = "s3_rev"

\* The constructor of the IdMapping of scene load g issues the query.
QueryIssued(g) ==
  mapState[g] = "unborn" /\ mapState'[g] = "pending" /\ idMapping # g /\ idMapping' = g

\* The query of scene load g settles.
QuerySettles(g) == mapState[g] = "pending" /\ mapState'[g] \in {"resolved", "rejected"}

\* A getDbids call of an update cycle, or a getExternalIds call of a pass, on the
\* IdMapping of scene load g returns.
MappingCallReturns(g) ==
  \/ \E s \in Slots : (UpdSyncMap(s) \/ UpdS3Rev(s)) /\ upd[s].gen = g
  \/ \E i \in PassIds :
       /\ passes[i].mapped /\ passes[i].gen = g
       /\ PassThrow(i) \/ PassEmitClear(i) \/ PassNoData(i) \/ PassEmitFilter(i)

\* C19 (idempotent mapping resolution): the query of an IdMapping changes state only
\* by being issued by the constructor, once, and by settling, once; a getDbids or
\* getExternalIds call returns only after the query has settled, and issues no
\* query and leaves the settled outcome as it is, so every call observes the same
\* mapping.
C19_MappingResolvedOnce ==
  [][\A g \in Gens :
       /\ mapState'[g] # mapState[g] => QueryIssued(g) \/ QuerySettles(g)
       /\ MappingCallReturns(g)
          => mapState[g] \in {"resolved", "rejected"} /\ mapState'[g] = mapState[g]]_vars

\* A getDbids call of an update cycle and a getExternalIds call of a pass wait for
\* the same query in flight.
C19_Witness ==
  /\ mapState[1] = "pending"
  /\ upd[1].pc \in {"sync_map", "s3_rev"} /\ upd[1].gen = 1
  /\ \E i \in PassIds : passes[i].mapped /\ passes[i].gen = 1

\* The text c is, once trimmed, a non-blank ExternalId of the scene.
Resolvable(c) == c # NoId /\ Trim(c) # "" /\ Trim(c) \in DOMAIN SceneMapping

\* C20 (getDbids): the result of getDbids holds, in input order, the dbId of each
\* input text that is, once trimmed, a non-blank ExternalId of the scene, and
\* nothing else; so it is no longer than the input.
C20_GetDbids ==
  (call.fn = "getDbids" /\ call.done)
  => LET known == SelectSeq(call.arg, Resolvable)
     IN /\ call.res = [i \in 1..Len(known) |-> SceneMapping[Trim(known[i])]]
        /\ Len(call.res) <= Len(call.arg)

\* A padded id, an id the scene does not have and a second id of the scene were
\* handed in: the two dbIds came back in that order.
C20_Witness ==
  call.fn = "getDbids" /\ call.done /\ call.arg = <<" A ", "X", "B">> /\ call.res = <<1, 4>>

\* ------------------------------------------- IdMapping over any scene
\* A scene is what the viewer hands to an IdMapping: the entries of the object that
\* getExternalIdMapping resolves to, in property order, and the parent of each
\* node of the instance tree (0: getNodeParentId yields no node).
SmallNodes == {1, 2, 3}
SceneIds == {"A", "B"}

\* A chain of MaxDepth + 2 nodes, each the child of the next.
LongChain == [n \in 1..(MaxDepth + 2) |-> IF n = MaxDepth + 2 THEN 0 ELSE n + 1]

\* Every parent relation on SmallNodes, a node that is its own parent and cycles
\* among them, and the long chain.
Trees == [SmallNodes -> SmallNodes \cup {0}] \cup {LongChain}

\* Objects with up to two properties, whose values may coincide.
EntriesOver(D) ==
  {<<>>} \cup {<<<<e, d>>>> : e \in SceneIds, d \in D}
         \cup {m \in {<<<<e, d>>, <<f, g>>>> : e \in SceneIds, f \in SceneIds, d \in D, g \in D} :
                 m[1][1] # m[2][1]}

Scenes ==
  {[entries |-> m, parent |-> t] : m \in EntriesOver(SmallNodes), t \in Trees \ {LongChain}}
    \cup {[entries |-> m, parent |-> LongChain] :
             m \in {<<>>, <<<<"A", MaxDepth + 1>>>>, <<<<"A", MaxDepth + 2>>>>}}

\* "reverse[dbid] = externalId" for each entry in turn: the last entry of a dbId stays.
ReverseHas(sc, d) == \E i \in 1..Len(sc.entries) : sc.entries[i][2] = d
ReverseOf(sc, d) ==
  LET last == CHOOSE i \in 1..Len(sc.entries) :
                /\ sc.entries[i][2] = d
                /\ \A j \in (i + 1)..Len(sc.entries) : sc.entries[j][2] # d
  IN sc.entries[last][1]

\* tree.getNodeParentId(current)
ParentIn(sc, current) == IF current \in DOMAIN sc.parent THEN sc.parent[current] ELSE 0

\* The ancestor walk of resolveSingle as it starts for dbid: where it stands, how
\* many times the loop went round, how many parents it asked for, what it returns.
WalkStart(dbid) == [current |-> dbid, depth |-> 0, asked |-> 0, running |-> TRUE, ret |-> NoId]

\* The body of the loop: the parent is asked for, then break, return or go up.
WalkBody(sc, w) ==
  LET parent == ParentIn(sc, w.current)
  IN IF parent = 0 \/ parent = w.current
     THEN [w EXCEPT !.running = FALSE, !.asked = w.asked + 1]
     ELSE IF ReverseHas(sc, parent)
     THEN [w EXCEPT !.running = FALSE, !.asked = w.asked + 1, !.ret = ReverseOf(sc, parent)]
     ELSE [w EXCEPT !.current = parent, !.depth = w.depth + 1, !.asked = w.asked + 1]

\* One evaluation of the while condition and, if it holds, of the loop body; a walk
\* that has left the loop stays as it is.
WalkIter_unbounded(sc, w) ==
  IF ~w.running THEN w
  ELSE IF w.current = 0 THEN [w EXCEPT !.running = FALSE]
  ELSE WalkBody(sc, w)
WalkIter(sc, w) ==
  IF ~w.running THEN w
  ELSE IF ~(w.current # 0 /\ w.depth < MaxDepth) THEN [w EXCEPT !.running = FALSE]
  ELSE WalkBody(sc, w)

\* The loop run to its end, five iterations to one level of the recursion.
RECURSIVE WalkRun(_, _)
WalkRun(sc, w) ==
  IF ~w.running THEN w
  ELSE WalkRun(sc, WalkIter(sc, WalkIter(sc, WalkIter(sc, WalkIter(sc, WalkIter(sc, w))))))

\* resolveSingle of getExternalIds in the scene sc.
resolveSingleIn_direct(sc, dbid) == IF ReverseHas(sc, dbid) THEN ReverseOf(sc, dbid) ELSE NoId
resolveSingleIn(sc, dbid) ==
  IF ReverseHas(sc, dbid) THEN ReverseOf(sc, dbid) ELSE WalkRun(sc, WalkStart(dbid)).ret

\* IdMapping.getExternalIds: the ids found, input order, nothing for the others.
RECURSIVE getExternalIdsIn(_, _)
getExternalIdsIn(sc, dbids) ==
  IF dbids = <<>> THEN <<>>
  ELSE LET extId == resolveSingleIn(sc, Head(dbids))
       IN IF extId # NoId THEN <<extId>> \o getExternalIdsIn(sc, Tail(dbids))
          ELSE getExternalIdsIn(sc, Tail(dbids))

\* IdMapping.getDbids in the scene sc ("mapping[externalId]").
RECURSIVE getDbidsIn(_, _)
getDbidsIn(sc, ids) ==
  IF ids = <<>> THEN <<>>
  ELSE LET rawId == Head(ids)
           externalId == IF rawId = NoId THEN "" ELSE Trim(rawId)
           hit == {i \in 1..Len(sc.entries) : sc.entries[i][1] = externalId}
       IN IF externalId # "" /\ hit # {}
          THEN <<sc.entries[CHOOSE i \in hit : TRUE][2]>> \o getDbidsIn(sc, Tail(ids))
          ELSE getDbidsIn(sc, Tail(ids))

\* Arrays of dbIds handed to getExternalIds.
MaxDbids == 2
DbidArrays == UNION {[1..n -> SmallNodes] : n \in 0..MaxDbids}

\* A call of the IdMapping of some scene on its own: getExternalIds with some array
\* of dbIds, or getDbids with one ExternalId ...
SceneCall(f, sc, a, from) ==
  [fn |-> f, scene |-> sc, arg |-> a, src |-> from, done |-> FALSE, res |-> <<>>]

InitScene ==
  /\ InitFields
  /\ call \in {SceneCall("getExternalIds", sc, a, <<>>) : sc \in Scenes, a \in DbidArrays}
            \cup {SceneCall("getDbids", sc, <<e>>, <<>>) : sc \in Scenes, e \in SceneIds}

CallUnchanged ==
  UNCHANGED <<dataVars, dbIdToColumnValueMap, viewerVars, sceneVars, timerVars, flagVars,
              passVars, isGlobalColoringEnabled, colorJobs, upd, guardResetTimers, hostFilter>>

\* ... the mapping being resolved, the call returns ...
GetExternalIdsInReturns ==
  /\ call.fn = "getExternalIds"
  /\ ~call.done
  /\ call' = [call EXCEPT !.done = TRUE, !.res = getExternalIdsIn(call.scene, call.arg)]
  /\ CallUnchanged

GetDbidsInReturns ==
  /\ call.fn = "getDbids"
  /\ ~call.done
  /\ call' = [call EXCEPT !.done = TRUE, !.res = getDbidsIn(call.scene, call.arg)]
  /\ CallUnchanged

\* ... and what getDbids returned is handed to getExternalIds.
ReverseLookup ==
  /\ call.fn = "getDbids"
  /\ call.done
  /\ call' = SceneCall("getExternalIds", call.scene, call.res, call.arg)
  /\ CallUnchanged

NextScene == GetExternalIdsInReturns \/ GetDbidsInReturns \/ ReverseLookup

SpecScene == InitScene /\ [][NextScene]_vars

\* One hop up from a.at, unless no hop is left or the node has no parent or is its
\* own parent; up collects the nodes passed, nearest first.
Hop(sc, a) ==
  LET parent == ParentIn(sc, a.at)
  IN IF a.left = 0 \/ parent = 0 \/ parent = a.at THEN [a EXCEPT !.left = 0]
     ELSE [up |-> Append(a.up, parent), at |-> parent, left |-> a.left - 1]

\* Hops as far as they go, five to one level of the recursion.
RECURSIVE Hops(_, _)
Hops(sc, a) ==
  IF a.left = 0 THEN a ELSE Hops(sc, Hop(sc, Hop(sc, Hop(sc, Hop(sc, Hop(sc, a))))))

\* The ancestors of dbid, nearest first, as far as n hops, up to a node without a
\* parent or one that is its own parent.
Ancestors(sc, dbid, n) == Hops(sc, [up |-> <<>>, at |-> dbid, left |-> n]).up

\* The id of dbid's own reverse entry, else of its nearest ancestor within MaxDepth
\* hops that has one, else NoId.
NearestId(sc, dbid) ==
  IF ReverseHas(sc, dbid) THEN ReverseOf(sc, dbid)
  ELSE LET up == Ancestors(sc, dbid, MaxDepth)
           withId == {i \in 1..Len(up) : ReverseHas(sc, up[i])}
       IN IF withId = {} THEN NoId
          ELSE ReverseOf(sc, up[CHOOSE i \in withId : \A j \in withId : i <= j])

RECURSIVE NearestIds(_, _)
NearestIds(sc, dbids) ==
  IF dbids = <<>> THEN <<>>
  ELSE (IF NearestId(sc, Head(dbids)) = NoId THEN <<>> ELSE <<NearestId(sc, Head(dbids))>>)
         \o NearestIds(sc, Tail(dbids))

PresentIn(sc, e) ==
  \E i \in 1..Len(sc.entries) : sc.entries[i][1] = e /\ sc.entries[i][2] \in DOMAIN sc.parent

\* C22 (round trip): when getExternalIds has returned for the dbIds that getDbids
\* returned for an id of the scene whose node exists, that id is in the result,
\* whatever the scene's mapping is, two ids of one node included.
C22_RoundTrip ==
  (call.fn = "getExternalIds" /\ call.done /\ call.src # <<>>)
  => \A e \in Range(call.src) : PresentIn(call.scene, e) => e \in Range(call.res)

\* Selection cleared, theming cleared, every node shown.
FailSafeView == sel = {} /\ themed = {} /\ visible = Nodes

\* C23 (zero-resolve fallback): when the isolation sequence finds that none of its
\* ids resolves to a dbId, it clears selection and theming and shows all nodes,
\* and returns without isolating anything.
C23_ZeroResolveFallback ==
  [][\A s \in Slots :
       (/\ UpdSyncMap(s) /\ viewer /\ MapStateOf(upd[s].gen) = "resolved"
        /\ getDbids(upd[s].sids) = <<>>)
       => FailSafeView' /\ upd'[s].pc = "sync_ret"]_vars

\* The filter "A" had been isolated; the filter "X", which the scene does not
\* have, has put the scene back to the fail-safe view.
C23_Witness ==
  /\ upd[1].pc = "sync_ret" /\ upd[1].ctx = "s1" /\ upd[1].ids = <<"X">>
  /\ lastFilteredIds = <<"A">> /\ MapStateOf(idMapping) = "resolved" /\ FailSafeView
\* ------------------------------------------------------- container expansion
RECURSIVE Under(_, _, _)
\* Node n lies below node d in the instance tree (within fuel parent links).
Under(n, d, fuel) ==
  /\ fuel > 0
  /\ n \in Nodes
  /\ NodeParent[n] \in Nodes
  /\ (NodeParent[n] = d \/ Under(NodeParent[n], d, fuel - 1))

\* The isolation sequence reaches viewer.isolate in this step of slot s.
IsolateStep(s) == UpdSyncMap(s) /\ upd'[s].pc = "sync_raf"

\* C24 (container expansion): the node set the isolation sequence passes to
\* isolate is exactly the validated internal identifiers together with every
\* node below one of them in the instance tree.
C24_ContainerExpansion ==
  [][\A s \in Slots :
       IsolateStep(s) =>
         LET validated == Range(getDbids(upd[s].sids)) \cap Nodes
         IN visible' = {n \in Nodes : \E d \in validated :
                                        n = d \/ Under(n, d, Cardinality(Nodes))}]_vars

\* The container "A" (node 1) was isolated: it and both of its leaves are shown.
C24_Witness ==
  /\ upd[1].pc = "sync_raf" /\ upd[1].ids = <<"A">>
  /\ visible = {1, 2, 5}
\* ----------------------------------------------------------- fail-safe fallback
\* A step in which the isolation sequence of slot s ends with an exception: the
\* mapping is rejected, or a call of the viewer throws.
SequenceThrows(s) ==
  \/ UpdSyncMap(s) /\ MapStateOf(upd[s].gen) # "resolved"
  \/ UpdSyncMap(s) /\ ~viewer
  \/ \E guarded \in BOOLEAN : UpdSyncMapThrows(s, guarded)
  \/ UpdSyncRafThrows(s)

\* C25 (fail-safe fallback): whenever a step of the isolation sequence throws,
\* the sequence ends with the selection cleared, the theming cleared and every
\* node shown.
C25_FailSafeFallback ==
  [][\A s \in Serial : SequenceThrows(s) => FailSafeView']_vars

\* The camera fit threw after "A" had been isolated and highlighted, and the
\* view is back to the fail-safe one.
C25_Witness ==
  /\ upd[1].pc = "sync_ret" /\ upd[1].ids = <<"A">>
  /\ isProgrammaticSelection /\ guardResetTimers = 0
  /\ FailSafeView
\* ------------------------------------------------------------- idempotence
\* C26 (idempotence of isolation): when the isolation sequence runs for the set
\* of identifiers it ran for last (lastFilteredIds), it leaves the isolated set
\* and the highlight as the first run left them.
C26_Idempotence ==
  [][\A s \in Serial :
       (UpdSyncMap(s) /\ upd[s].ctx = "s1" /\ lastFilteredIds = upd[s].ids)
       => visible' = visible /\ themed' = themed]_vars

\* The second run for "A" has isolated and highlighted the container and its leaves.
C26_Witness ==
  /\ upd[1].pc = "sync_raf" /\ upd[1].ctx = "s1" /\ upd[1].ids = <<"A">>
  /\ lastFilteredIds = <<"A">>
  /\ visible = {1, 2, 5} /\ themed = {1, 2, 5}
\* ------------------------------------------------- the scene's query rejects
\* The update cycle of slot s returns (or ends with a rejection) in this step.
CycleEnds(s) == upd[s].pc # "idle" /\ upd'[s].pc = "idle"

\* The update cycle of slot s ends in this step with the rejection of its awaited
\* syncColors().
CycleRejects(s) == (UpdS2Col(s) \/ UpdS3Col(s)) /\ SyncColorsRejects(upd[s])

\* C27 (MappingUnavailable is not fatal): when the identifier query of the scene
\* has rejected, an external-filter cycle falls back to the show-all view, and
\* no update cycle ends with a rejection or with isProgrammaticSelection left set.
C27_MappingUnavailableNotFatal ==
  [][\A s \in Serial :
       /\ (UpdSyncMap(s) /\ viewer /\ MapStateOf(upd[s].gen) = "rejected") => FailSafeView'
       /\ (CycleEnds(s) /\ MapStateOf(idMapping) = "rejected")
            => ~CycleRejects(s) /\ ~isProgrammaticSelection']_vars
\* ------------------------------------------------------ the outgoing boundary
\* The ExternalId v is the one the scene's mapping gives node d or one of the
\* nodes above d.
IdOnPath(v, d) ==
  /\ v \in DOMAIN SceneMapping
  /\ SceneMapping[v] = d \/ Under(d, SceneMapping[v], Cardinality(Nodes))

\* C28 (only ExternalIds cross the boundary): every value of a filter request
\* handed to the host is an ExternalId of the scene's mapping, that of a selected
\* node or of a node above it; no internal identifier is among the values.
C28_OnlyExternalIdsCross ==
  [][\A i \in 1..Len(passes) :
       PassEmitFilter(i) =>
         \A v \in hostFilter' : \E d \in passes[i].snap : IdOnPath(v, d)]_vars

\* The leaf 2 and node 4 were selected, and the request carries "A", the
\* ExternalId of the container above the leaf, and "B".
C28_Witness ==
  /\ sel = {2, 4} /\ hostFilter = {"A", "B"} /\ isDbIdSelectionActive
\* ------------------------------------------------------ extent of the guard
\* An isolation sequence has isolated and highlighted and waits for the animation
\* frame in which it fits the camera.
BeforeFitToView == \E s \in Slots : upd[s].pc = "sync_raf"

\* C29 (order and extent of the guard): the step that isolates sets
\* isProgrammaticSelection, the guard stays true until fitToView has run, and it
\* goes back to false only in a step taken after the sequence has completed.
C29_GuardExtent ==
  [][/\ \A s \in Slots : IsolateStep(s) => isProgrammaticSelection'
     /\ BeforeFitToView' => isProgrammaticSelection'
     /\ (isProgrammaticSelection /\ ~isProgrammaticSelection') => ~BeforeFitToView]_vars
\* ------------------------------------------------ the ancestor walk, step by step
\* Scenes for the walk: every parent relation on SmallNodes with at most one
\* ExternalId, and the long chain.
WalkScenes == {sc \in Scenes : Len(sc.entries) <= 1}

\* resolveSingle(dbid) of getExternalIds in the scene sc, about to start.
WalkCall(sc, dbid) ==
  [fn |-> "resolveSingle", scene |-> sc, arg |-> <<dbid>>, src |-> <<>>, done |-> FALSE,
   res |-> <<>>, w |-> WalkStart(dbid)]

InitWalk ==
  /\ InitFields
  /\ call \in {WalkCall(sc, d) : sc \in WalkScenes, d \in SmallNodes}

\* "if (reverse[dbid]) return reverse[dbid]"
ResolveDirect ==
  /\ call.fn = "resolveSingle" /\ ~call.done
  /\ ReverseHas(call.scene, call.arg[1])
  /\ call' = [call EXCEPT !.done = TRUE, !.res = <<ReverseOf(call.scene, call.arg[1])>>]
  /\ CallUnchanged

\* The while condition is evaluated and, if it holds, the loop body runs once.
WalkStep ==
  /\ call.fn = "resolveSingle" /\ ~call.done
  /\ ~ReverseHas(call.scene, call.arg[1])
  /\ call.w.running
  /\ call' = [call EXCEPT !.w = WalkIter(call.scene, call.w)]
  /\ CallUnchanged

\* resolveSingle returns what the walk found; getExternalIds pushes it if it is an id.
WalkReturns ==
  /\ call.fn = "resolveSingle" /\ ~call.done
  /\ ~ReverseHas(call.scene, call.arg[1])
  /\ ~call.w.running
  /\ call' = [call EXCEPT !.done = TRUE,
                          !.res = IF call.w.ret # NoId THEN <<call.w.ret>> ELSE <<>>]
  /\ CallUnchanged

NextWalk == ResolveDirect \/ WalkStep \/ WalkReturns

\* The loop is synchronous code: it goes on as long as it can.
SpecWalk == InitWalk /\ [][NextWalk]_vars /\ WF_vars(NextWalk)

\* Neither dbid nor any node reached from it by parent links has an ExternalId.
NoIdUpward(sc, dbid) ==
  /\ ~ReverseHas(sc, dbid)
  /\ \A a \in Range(Ancestors(sc, dbid, Cardinality(DOMAIN sc.parent))) : ~ReverseHas(sc, a)

\* C30 (the ancestor walk terminates): for every dbId and every parent relation,
\* also one with a node that is its own parent or with a cycle, resolveSingle
\* asks for at most 100 parents and then returns; a dbId from which no node with
\* an ExternalId is reached is reported as unresolved.
C30_WalkTerminates ==
  /\ [](call.w.asked <= MaxDepth)
  /\ []((call.done /\ NoIdUpward(call.scene, call.arg[1])) => call.res = <<>>)
  /\ <>call.done

\* Nodes 1 and 2 are each other's parent and have no ExternalId: the walk from
\* node 1 asked for 100 parents and returned nothing.
C30_Witness ==
  /\ call.fn = "resolveSingle" /\ call.done /\ call.arg = <<1>>
  /\ ParentIn(call.scene, 1) = 2 /\ ParentIn(call.scene, 2) = 1
  /\ call.w.asked = MaxDepth /\ call.res = <<>>

\* C31 (aligned result): when getExternalIds has returned, its result is as long as
\* the array of dbIds it was given and holds at each position the id of that dbId or
\* of its nearest ancestor, and undefined (NoId) where there is neither.
C31_AlignedWithInput ==
  (call.fn = "getExternalIds" /\ call.done)
  => /\ Len(call.res) = Len(call.arg)
     /\ \A i \in 1..Len(call.arg) : call.res[i] = NearestId(call.scene, call.arg[i])

\* The nodes handed to viewer.fitToView by the sequence of cycle s: its finalDbIds,
\* which it isolated before the animation frame.
FitStep(s) == UpdSyncRaf(s)

\* C32 (stale INIDs dropped): the sets the isolation sequence hands to isolate, to
\* setThemingColor and to fitToView hold only nodes of the loaded scene, also when
\* the mapping resolves an id to a dbId the scene does not have; and validateDbIds
\* returns the dbIds of its input that are nodes of the scene, in input order.
C32_StaleDropped ==
  [][/\ \A s \in Serial :
          /\ IsolateStep(s) => visible' \subseteq Nodes /\ themed' \subseteq Nodes
          /\ FitStep(s) => visible \subseteq Nodes
     /\ ValidateDbIdsReturns
          => call'.res = SelectSeq(call.arg, LAMBDA d : d \in Nodes)]_vars

\* The sequence for the ids "A" and the stale "S" has isolated the container of "A"
\* with its leaves and fitted the camera to them; validateDbIds has dropped the
\* missing dbId 9 that came before the existing dbId 1.
C32_Witness ==
  /\ upd[1].pc = "sync_ret" /\ upd[1].ctx = "s1" /\ upd[1].ids = <<"A", "S">>
  /\ guardResetTimers = 1
  /\ visible = {1, 2, 5} /\ themed = {1, 2, 5}
  /\ call.done /\ call.arg = <<9, 1>> /\ call.res = <<1>>

\* A step of handleSelectionChange: its start at the debounce timer, or the
\* resumption of pass i from its await in any of the ways it can end or go round.
PassStep ==
  \/ DebounceFire
  \/ \E i \in PassIds : PassThrow(i) \/ PassEmitClear(i) \/ PassNoData(i) \/ PassEmitFilter(i)

\* C33 (colours untouched by selection changes): no step of a reconciliation pass,
\* whatever the selection and however the pass ends, changes the themed nodes.
C33_PassKeepsTheming == [][PassStep => themed' = themed]_vars

\* The nodes of "A" are themed by an incoming filter, and a pass has since sent the
\* user's selection to the host.
C33_Witness ==
  /\ themed = {1, 2, 5}
  /\ isDbIdSelectionActive /\ hostFilter = {"A"}
  /\ passes = <<>> /\ ~isProcessingSelection

\* A steady cycle has rebuilt the reverse mapping and synced the colours, and has
\* returned: the cache of buildReverseMapping is filled and no cycle is in flight.
SteadySynced == dbIdToColumnValueMap # {} /\ \A t \in Slots : upd[t].pc = "idle"

\* C34 (STEADY): a steady cycle leaves the isolation as it is, and when a steady
\* cycle has performed the reverse-mapping rebuild and colour sync, the next cycle
\* of the report at rest, its data unchanged, does not perform it again.
C34_SteadySyncOnce ==
  [][\A s \in Slots :
       /\ (UpdS3Rev(s) \/ UpdS3Col(s)) => visible' = visible
       /\ (SteadySynced /\ externalIds' = externalIds) => upd'[s].pc # "s3_rev"]_vars

\* C35 (reverse mapping cache): every entry of dbIdToColumnValueMap, whether put
\* there by buildReverseMapping or by the refresh in syncSelectionState, pairs a
\* dbId with an ExternalId that the scene's mapping resolves to that dbId, also
\* when some of the accumulated ExternalIds are not in the scene.
C35_ReverseCacheCorrect ==
  \A p \in dbIdToColumnValueMap :
     p[2] \in DOMAIN SceneMapping /\ SceneMapping[p[2]] = p[1]

\* The cache has an entry for the dbId of every accumulated ExternalId that the
\* scene resolves.
CoversUniverse ==
  \A e \in Range(externalIds) \cap DOMAIN SceneMapping :
     \E p \in dbIdToColumnValueMap : p[1] = SceneMapping[e]

\* C36 (cache follows the EID universe): when an update cycle that began with the
\* viewer ready and the mapping resolved has changed the accumulated ExternalIds
\* and has ended - an Append cycle and a cycle with a segment included - the
\* reverse cache has an entry for every resolvable id of the new accumulated set.
C36_CacheFollowsUniverse ==
  [][\A s \in Serial, o \in UpdateOptions :
       (/\ Update(s, o)
        /\ ~NotReady /\ MapStateOf(idMapping) = "resolved"
        /\ externalIds' # externalIds
        /\ upd'[s].pc = "idle")
       => CoversUniverse']_vars

\* No incoming reconciliation is under way: every update cycle has returned.
IncomingEnded == \A s \in Slots : upd[s].pc = "idle"

\* C37 (the guard is released): whenever the incoming reconciliations have ended,
\* however they ended, and the guard is set, the guard is false some time later
\* without any further update from the host.
C37_GuardReleased ==
  [](IncomingEnded /\ isProgrammaticSelection => <>(~isProgrammaticSelection))

\* The filter detection and the dispatch of update run in this step for the cycle
\* of slot s, and destroyViewer does not: the cycle resumes after initializeViewer,
\* or update is called with a viewer for its URN.
Dispatches(s) ==
  /\ UpdCls(s) \/ (\E o \in PendingOptions : Update(s, o) /\ upd'[s].pc # "tok")
  /\ viewer' = viewer

NextReload ==
  \/ \E s \in Serial, o \in PendingOptions : HostedUpdate(s, o)
  \/ \E s \in Serial, ok \in BOOLEAN : TokenResult(s, ok)
  \/ \E s \in Serial, ok \in BOOLEAN : LaunchDone(s, ok)
  \/ \E s \in Serial : UpdCls(s)
  \/ \E s \in Serial : UpdSyncMap(s)
  \/ \E s \in Serial : UpdSyncRaf(s)
  \/ \E s \in Serial : UpdSyncRet(s)
  \/ \E s \in Serial : UpdS2Col(s)
  \/ \E s \in Serial : UpdS3Rev(s)
  \/ \E s \in Serial : UpdS3Col(s)
  \/ \E S \in PickedSelections : UserSelect(S)
  \/ DebounceFire
  \/ \E i \in 1..Len(passes) : PassThrow(i)
  \/ \E i \in 1..Len(passes) : PassEmitClear(i)
  \/ \E i \in 1..Len(passes) : PassNoData(i)
  \/ \E i \in 1..Len(passes) : PassEmitFilter(i)
  \/ GuardResetFire
  \/ \E g \in Gens, outcome \in {"resolved", "rejected"} : MappingSettle(g, outcome)

SpecReload == Init /\ [][NextReload]_vars

\* update calls destroyViewer in this step: a viewer is held and the URN is new.
DestroyViewerRuns ==
  /\ viewer
  /\ \E s \in Serial, o \in PendingOptions :
        Update(s, o) /\ o.urn # NoUrn /\ o.urn # currentUrn

\* C39 (readiness): the viewer (with its model), the IdMapping and isViewerReady
\* are set together or null together in every state, and the step in which
\* destroyViewer runs leaves all of them null with isDbIdSelectionActive false,
\* lastFilteredIds null and pendingSelection null.
C39_Readiness ==
  /\ []((viewer <=> isViewerReady) /\ (viewer <=> idMapping # 0))
  /\ [][DestroyViewerRuns =>
          /\ ~viewer' /\ idMapping' = 0 /\ ~isViewerReady'
          /\ ~isDbIdSelectionActive'
          /\ lastFilteredIds' = Null
          /\ pendingSelection' = Null]_vars

\* destroyViewer has run on an active own filter over an external isolation: the
\* host still holds the filter on "A", every field of the visual is reset.
C39_Witness ==
  /\ ~viewer /\ idMapping = 0 /\ ~isViewerReady /\ loads = 1 /\ inits = 2
  /\ hostFilter = {"A"} /\ ~isDbIdSelectionActive
  /\ lastFilteredIds = Null /\ pendingSelection = Null /\ upd[1].pc = "tok"

\* The cycles suspended inside initializeViewer before the viewer is stored: at
\* "await this.fetchToken(...)" or at "await launchViewer(...)".
Initializing == {s \in Slots : upd[s].pc \in {"tok", "launch"}}

\* C40 (one initialisation in flight): at no time are two update cycles suspended
\* inside initializeViewer for the model URN, each about to store a viewer and an
\* IdMapping of its own.
C40_OneInitInFlight == Cardinality(Initializing) <= 1
====
